---------------------------- MODULE Spec2Model ----------------------------
(***************************************************************************)
(* A model of NCPatcher's patch maker (source/patch/patchmaker.cpp).       *)
(*                                                                         *)
(* PatchMaker::makeTarget is a straight-line pipeline; every stage is one  *)
(* action and `pc` is the position in makeTarget.  applyPatchesToRom is    *)
(* two loops; each loop iteration is one step (ApplyPatch,                 *)
(* InstallNewcode), sequenced by `pc`, `patchIdx` and `installLeft`.       *)
(*                                                                         *)
(* A 32-bit word is kept as its four little-endian bytes, so that opcodes  *)
(* such as 0xEA000000 stay exact; addresses are integers below 2^31.       *)
(***************************************************************************)
EXTENDS Integers, Sequences, FiniteSets, TLC

\* ------------------------------------------------------------------ bounds

\* The largest number of patch directives the objects of one run declare.
MaxPatches == 3

\* The largest number of makeTarget runs in one behaviour of SpecRuns.
MaxRuns == 3

\* ------------------------------------------------------- program constants

SizeOfHookBridge == 20
SizeOfArm2ThumbJumpBridge == 8

\* The twelve bytes of one autoload-list entry on disk (u32 entryData[3]).
SizeOfAutoLoadEntry == 12

\* OVERLAY_FLAG_COMP: the compression bit of OvtEntry::flag.
OVERLAY_FLAG_COMP == 1

\* PatchType
Jump == 0
Call == 1
Hook == 2
Over == 3
SetJump == 4
SetCall == 5
SetHook == 6
RtRepl == 7
TJump == 8
TCall == 9
THook == 10
TSetJump == 11
TSetCall == 12
TSetHook == 13

\* ---------------------------------------------------------- 32-bit words

Byte == 0..255

Pow2_8 == 2^8
Pow2_16 == 2^16
Pow2_24 == 2^24
Pow2_26 == 2^26

\* A u32 built from its top byte and its low 24 bits, little-endian.
MkWord(top, imm24) ==
    << imm24 % Pow2_8, (imm24 \div Pow2_8) % Pow2_8, (imm24 \div Pow2_16) % Pow2_8, top >>

\* Util::write<u32> of an address (below 2^31).
U32Bytes(n) == MkWord(n \div Pow2_24, n % Pow2_24)

\* opCode & 0xFFFFFF
Imm24(w) == w[1] + Pow2_8 * w[2] + Pow2_16 * w[3]

\* opCode >> 24
TopByte(w) == w[4]

\* Util::read<u32> of a word that holds an address.
U32Value(w) == Imm24(w) + Pow2_24 * TopByte(w)

armOpcodeB == 234
armOpcodeBL == 235
armOpCodeBLX == 250
armHookPush == MkWord(233, 2969615)
armHookPop == MkWord(232, 12406799)
thumbOpCodeBL0 == 61440
thumbOpCodeBL1 == 63488
thumbOpCodeBLX1 == 59392
thumbOpCodePushLR == 46336
thumbOpCodePopPC == 48384

\* ------------------------------------------------------------ byte buffers

SubBytes(s, from, n) == [i \in 1..n |-> s[from + i]]

Zeros(n) == [i \in 1..n |-> 0]

\* std::vector<u8>::resize to a larger size: the new bytes are zero.
Resize(s, n) == IF n <= Len(s) THEN SubBytes(s, 0, n) ELSE s \o Zeros(n - Len(s))

\* std::memcpy(&s[off], src, Len(src)) into a buffer that is large enough.
WriteAt(s, off, src) ==
    [i \in 1..Len(s) |-> IF i > off /\ i <= off + Len(src) THEN src[i - off] ELSE s[i]]

\* ---------------------------------------------------------- opcode makers

RECURSIVE BitOr(_, _, _)
\* a | b on the low n bits.
BitOr(a, b, n) ==
    IF n = 0 THEN 0
    ELSE (IF a % 2 = 1 \/ b % 2 = 1 THEN 1 ELSE 0) + 2 * BitOr(a \div 2, b \div 2, n - 1)

\* An offset counted from the branch itself, not from the address the
\* processor has fetched up to.
JumpImm24NoPrefetch(fromAddr, toAddr) ==
    (((toAddr - fromAddr) % Pow2_26) \div 4) % Pow2_24

\* (((toAddr - fromAddr) >> 2) - 2) & 0xFFFFFF in u32 arithmetic: only the low
\* 26 bits of the difference reach the result.
JumpImm24(fromAddr, toAddr) ==
    ((((toAddr - fromAddr) % Pow2_26) \div 4) - 2) % Pow2_24

\* PatchMaker::makeJumpOpCode; opCode is a word.
makeJumpOpCode(opCode, fromAddr, toAddr) ==
    MkWord(TopByte(opCode), BitOr(Imm24(opCode), JumpImm24(fromAddr, toAddr), 24))

\* A THUMB offset whose bits 10..0 are taken for bits 21..11 too.
ThumbOffset22Low(fromAddr, toAddr) ==
    LET low == ((((toAddr - fromAddr) % (2^23)) \div 2) - 2) % (2^11)
    IN  (2^11) * low + low

\* The u32 offset of makeThumbJumpOpCode, reduced to the 22 bits that are used.
ThumbOffset22(fromAddr, toAddr) ==
    ((((toAddr - fromAddr) % (2^23)) \div 2) - 2) % (2^22)

\* PatchMaker::makeThumbJumpOpCode; opCode is the u16 of the second halfword.
\* The result is opcode1 << 16 | opcode0: opcode0 is the low halfword.
makeThumbJumpOpCode(opCode, fromAddr, toAddr) ==
    LET offset == ThumbOffset22(fromAddr, toAddr)
        opcode0 == thumbOpCodeBL0 + (offset \div (2^11))
        opcode1 == opCode + (offset % (2^11))
    IN  << opcode0 % Pow2_8, opcode0 \div Pow2_8, opcode1 % Pow2_8, opcode1 \div Pow2_8 >>

\* A fixup that copies the opcode as it is.
fixupOpCodeCopy(opCode, ogAddr, newAddr) == opCode

\* PatchMaker::fixupOpCode
fixupOpCode(opCode, ogAddr, newAddr) ==
    IF (TopByte(opCode) \div 2) % 8 = 5
    THEN LET opCodeBase == MkWord(TopByte(opCode), 0)
             toAddr == ((Imm24(opCode) + 2) * 4) + ogAddr
         IN  makeJumpOpCode(opCodeBase, newAddr, toAddr)
    ELSE opCode

\* ------------------------------------------------------------ the ROM tree

\* HeaderBin: the RAM address of the ARM binary, and the file offset of the
\* module-params block that ArmBin::load reaches through the hook offset.
Header == [ramAddress |-> 2^25, moduleParamsOff |-> 16]

\* BuildTarget::arenaLo: the address of the word that holds the heap floor.
ArenaLo == Header.ramAddress + 12

\* The heap floor of the unpatched game: where new main code will run.
OrigArenaLoValue == Header.ramAddress + 2^14

\* The overlays of the game.
OvIds == {0, 1}

\* The RAM window the overlays are loaded to.
OvRamAddress == Header.ramAddress + 2^20

\* The unpatched ARM binary: three code words (a MOV R0,R0, a BL back to it, data), the
\* arenaLo word, the module params {autoloadListStart, autoloadListEnd,
\* autoloadStart}, one autoload block of eight bytes and its list entry.
OrigArmData ==
    MkWord(225, 10485760) \o MkWord(235, Pow2_24 - 3) \o << 1, 2, 3, 4 >>
    \o U32Bytes(OrigArenaLoValue)
    \o U32Bytes(Header.ramAddress + 36) \o U32Bytes(Header.ramAddress + 48)
    \o U32Bytes(Header.ramAddress + 28)
    \o << 5, 6, 7, 8, 9, 10, 11, 12 >>
    \o U32Bytes(2^24) \o U32Bytes(8) \o U32Bytes(0)

\* The unpatched, uncompressed bytes of each overlay.
OrigOvData(id) ==
    IF id = 0 THEN MkWord(225, 10485760) \o MkWord(234, 4)
    ELSE << 31, 32, 33, 34 >> \o MkWord(225, 10485761)

\* The compressed form of an overlay file, and its inverse (ndsbin, not in
\* this source): a length byte followed by the bytes in reverse order.
Compress(bytes) == << Len(bytes) >> \o [i \in 1..Len(bytes) |-> bytes[Len(bytes) + 1 - i]]

\* OverlayBin::load of a file said to be compressed: the inverse of Compress,
\* applied to whatever the file holds.
Decompress(file) ==
    IF Len(file) = 0 THEN << >>
    ELSE [i \in 1..(Len(file) - 1) |-> file[Len(file) + 1 - i]]

\* OvtEntry
OvtEntry(ramAddress, ramSize, bssSize, compressed, flag) ==
    [ramAddress |-> ramAddress, ramSize |-> ramSize, bssSize |-> bssSize,
     sinitStart |-> ramAddress, sinitEnd |-> ramAddress + 4,
     compressed |-> compressed, flag |-> flag]

\* The overlay table of the unpatched game: overlay 0 is stored uncompressed
\* and has four bytes of bss, overlay 1 is stored compressed.
OrigOvt ==
    [id \in OvIds |->
        IF id = 0 THEN OvtEntry(OvRamAddress, 8, 4, 0, 0)
        ELSE OvtEntry(OvRamAddress, 8, 0, 9, OVERLAY_FLAG_COMP)]

\* The overlay files of the unpatched game.
OrigOvFile(id) == IF id = 0 THEN OrigOvData(0) ELSE Compress(OrigOvData(1))

\* An absent file, and a file with its bytes.
NoFile == [exists |-> FALSE, bytes |-> << >>]
File(bytes) == [exists |-> TRUE, bytes |-> bytes]

\* An absent overlay-table file, and one with its entries.
NoOvtFile == [exists |-> FALSE, entries |-> << >>]
OvtFile(entries) == [exists |-> TRUE, entries |-> entries]

\* ------------------------------------------------------------------ ArmBin

\* ArmBin::getModuleParams: the block inside the binary's bytes.
ModuleParams(data) ==
    [autoloadListStart |-> U32Value(SubBytes(data, Header.moduleParamsOff, 4)),
     autoloadListEnd |-> U32Value(SubBytes(data, Header.moduleParamsOff + 4, 4)),
     autoloadStart |-> U32Value(SubBytes(data, Header.moduleParamsOff + 8, 4))]

\* Storing through the ModuleParams pointer.
SetAutoloadList(data, listStart, listEnd) ==
    WriteAt(data, Header.moduleParamsOff, U32Bytes(listStart) \o U32Bytes(listEnd))

RECURSIVE AutoloadEntries(_, _, _, _)
\* The autoload entries read from the n entries at file offset off; dataOff is
\* the running file offset of each entry's block.
AutoloadEntries(data, off, n, dataOff) ==
    IF n = 0 THEN << >>
    ELSE LET size == U32Value(SubBytes(data, off + 4, 4))
         IN  << [address |-> U32Value(SubBytes(data, off, 4)),
                 size |-> size,
                 bssSize |-> U32Value(SubBytes(data, off + 8, 4)),
                 dataOff |-> dataOff] >>
             \o AutoloadEntries(data, off + SizeOfAutoLoadEntry, n - 1, dataOff + size)

\* ArmBin::load: the raw bytes and the parsed autoload list.
ArmLoad(bytes) ==
    LET mp == ModuleParams(bytes)
    IN  [data |-> bytes,
         autoloadList |->
            AutoloadEntries(bytes, mp.autoloadListStart - Header.ramAddress,
                (mp.autoloadListEnd - mp.autoloadListStart) \div SizeOfAutoLoadEntry,
                mp.autoloadStart - Header.ramAddress)]

\* The ARM binary before loadArmBin.
NoArm == [data |-> << >>, autoloadList |-> << >>]

\* ICodeBin::read<u32> and ICodeBin::writeBytes on the ARM binary.
ArmRead32(arm, addr) == SubBytes(arm.data, addr - Header.ramAddress, 4)
ArmWrite(arm, addr, bytes) ==
    [arm EXCEPT !.data = WriteAt(@, addr - Header.ramAddress, bytes)]

\* -------------------------------------------------------------- OverlayBin

\* An overlay that is not loaded.
NoOverlay ==
    [loaded |-> FALSE, data |-> << >>, backupData |-> << >>, ramAddress |-> 0,
     dirty |-> FALSE]

\* OverlayBin::load(path, ramAddress, compressed, id)
OverlayLoad(bytes, ramAddress, compressed) ==
    [loaded |-> TRUE,
     data |-> IF compressed THEN Decompress(bytes) ELSE bytes,
     backupData |-> << >>, ramAddress |-> ramAddress, dirty |-> FALSE]

\* ICodeBin::read<u32> and ICodeBin::writeBytes on an overlay; a write marks
\* the overlay dirty.
OvRead32(ov, addr) == SubBytes(ov.data, addr - ov.ramAddress, 4)
OvWrite(ov, addr, bytes) ==
    [ov EXCEPT !.data = WriteAt(@, addr - ov.ramAddress, bytes), !.dirty = TRUE]

\* ------------------------------------------------------------ build target

\* region.address == 0xFFFFFFFF: "use the overlay's RAM address".
NoRegionAddress == -1

Region(destination, mode, address, length) ==
    [destination |-> destination, mode |-> mode, address |-> address, length |-> length]

\* The region of the main ARM binary.
MainRegion == Region(-1, "Append", NoRegionAddress, 2^16)

\* The regions a target may declare for overlay 0.
OverlayRegions ==
    { Region(0, "Append", NoRegionAddress, 24),
      Region(0, "Append", NoRegionAddress, 64),
      Region(0, "Replace", NoRegionAddress, 24),
      Region(0, "Replace", OvRamAddress + 64, 24),
      Region(0, "Create", OvRamAddress + 64, 24) }

\* BuildTarget: getArm9() and regions.
Targets ==
    { [arm9 |-> TRUE, regions |-> rs] :
        rs \in { << MainRegion >> } \cup { << MainRegion, r >> : r \in OverlayRegions } }
    \cup
    { [arm9 |-> FALSE, regions |-> rs] :
        rs \in { << MainRegion >>, << MainRegion, Region(0, "Append", NoRegionAddress, 64) >> } }

\* ------------------------------------------------------- patch directives

\* s_patchTypeNames
s_patchTypeNames ==
    << "jump", "call", "hook", "over", "setjump", "setcall", "sethook", "rtrepl",
       "tjump", "tcall", "thook", "tsetjump", "tsetcall", "tsethook" >>

\* Util::indexOf (util.hpp, not in this source): the zero-based index of a
\* name in a list of names, -1 when it is not there.
indexOf(name, names) ==
    IF \E k \in 1..Len(names) : names[k] = name
    THEN (CHOOSE k \in 1..Len(names) : names[k] = name) - 1
    ELSE -1

\* The characters of a number token are hexadecimal digits, 0..15; NotHex is
\* a character that is none.
NotHex == 16

RECURSIVE HexValue(_, _)
\* The value of the first n digits of a token.
HexValue(tok, n) == IF n = 0 THEN 0 ELSE 16 * HexValue(tok, n - 1) + tok[n]

\* Util::addrToInt (util.hpp, not in this source): the value of a
\* hexadecimal token; -1 stands for the exception it throws on a token that
\* is no hexadecimal number.
addrToInt(tok) ==
    IF tok = << >> \/ \E i \in 1..Len(tok) : tok[i] >= NotHex THEN -1
    ELSE HexValue(tok, Len(tok))

\* The eight hexadecimal digits of an address, as a directive's name has them.
HexName(n) == [i \in 1..8 |-> (n \div (16 ^ (8 - i))) % 16]

\* The name of a directive after its stem "ncp_" or ".ncp_", cut at its
\* first two underscores: tokens is the number of parts (1 when there is no
\* underscore, 2 when there is one), kind the first part, address the second,
\* ovPrefix and ovNumber the first two characters and the rest of the third.
LabelName(tokens, kind, address, ovPrefix, ovNumber) ==
    [tokens |-> tokens, kind |-> kind, address |-> address,
     ovPrefix |-> ovPrefix, ovNumber |-> ovNumber]

\* A section or a symbol of an object file whose name begins with ".ncp_" or
\* "ncp_": its name, the size of the section, the low bit of the value of
\* the function the directive declares (funcThumb), and the index of the
\* source-file job the object belongs to.
NamedDirective(isSection, name, secSize, funcThumb, job) ==
    [isSection |-> isSection, name |-> name, secSize |-> secSize,
     funcThumb |-> funcThumb, job |-> job]

\* The directive ".ncp_<kind>_<addr>[_ov<N>]" or "ncp_<kind>_<addr>[_ov<N>]";
\* kind is the index of the kind's name in s_patchTypeNames, ov is -1 when
\* there is no overlay token.
Directive(isSection, kind, addr, ov, secSize, funcThumb, job) ==
    NamedDirective(isSection,
        LabelName(IF ov = -1 THEN 2 ELSE 3, s_patchTypeNames[kind + 1], HexName(addr),
                  IF ov = -1 THEN "" ELSE "ov", IF ov = -1 THEN << >> ELSE << ov >>),
        secSize, funcThumb, job)

\* The set macros declare their label on a pointer they place in the
\* section ".ncp_set" of the object (ncp.h, not in this source).
InNcpSet(d) ==
    /\ ~d.isSection
    /\ d.name.kind \in {"setjump", "setcall", "sethook", "tsetjump", "tsetcall", "tsethook"}

\* The directives the objects of the main region's job may declare, in the
\* order of the object's tables.
MainDirectives ==
    << Directive(TRUE, Hook, Header.ramAddress, -1, 24, FALSE, 1),
      Directive(FALSE, Hook, Header.ramAddress + 4, -1, 0, FALSE, 1),
      Directive(TRUE, Jump, Header.ramAddress + 4, -1, 8, TRUE, 1),
      Directive(TRUE, Jump, Header.ramAddress, -1, 8, FALSE, 1),
      Directive(FALSE, TJump, Header.ramAddress + 8, -1, 0, FALSE, 1),
      Directive(TRUE, Call, Header.ramAddress + 4, -1, 8, TRUE, 1),
      Directive(TRUE, Over, Header.ramAddress, -1, 8, FALSE, 1),
      Directive(TRUE, Over, Header.ramAddress + 2, -1, 4, FALSE, 1),
      Directive(FALSE, Jump, OvRamAddress, 1, 0, FALSE, 1),
      Directive(FALSE, THook, Header.ramAddress, -1, 0, FALSE, 1),
      Directive(FALSE, TJump, Header.ramAddress + 8, -1, 0, TRUE, 1),
      Directive(TRUE, Call, Header.ramAddress + 8, -1, 8, FALSE, 1) >>

\* The directives the objects of the overlay region's job may declare.
OverlayDirectives ==
    << Directive(TRUE, Hook, OvRamAddress + 4, 0, 24, FALSE, 2),
       Directive(TRUE, Jump, OvRamAddress, 0, 8, TRUE, 2) >>

\* GenericPatchInfo
PatchInfo(srcOv, dest, destOv, type, secIdx, secSize, isNcpSet, srcThumb, destThumb, symbol, job) ==
    [srcAddress |-> 0, srcAddressOv |-> srcOv, destAddress |-> dest,
     destAddressOv |-> destOv, patchType |-> type,
     sectionIdx |-> secIdx, sectionSize |-> secSize, isNcpSet |-> isNcpSet,
     srcThumb |-> srcThumb, destThumb |-> destThumb, symbol |-> symbol, job |-> job]

\* The address left as the name gives it.
OrOneSkipped(a) == a

\* destAddress |= 1 and destAddress & ~1
OrOne(a) == IF a % 2 = 1 THEN a ELSE a + 1
ClearBit0(a) == a - (a % 2)

\* The parseSymbol lambda of gatherInfoFromObjects; symbolName is the name
\* with its stem (dot: whether it begins with "."), regionDest the
\* destination of the job's region.  The result is the sequence of patch
\* records it appends (none or one).
parseSymbol(symbolName, symbolAddr, sectionIdx, sectionSize, regionDest, job) ==
    LET labelName == symbolName.name
        patchTypeName == indexOf(labelName.kind, s_patchTypeNames)
    IN
    IF labelName.tokens < 2 THEN << >>
    ELSE IF patchTypeName = -1 THEN << >>
    ELSE IF patchTypeName = Over /\ sectionIdx = -1 THEN << >>
    ELSE IF patchTypeName = RtRepl THEN << >>
    ELSE
    LET forceThumb == patchTypeName >= TJump /\ patchTypeName <= TSetHook
        t1 == IF patchTypeName >= TJump /\ patchTypeName <= THook
              THEN patchTypeName - (TJump - Jump)
              ELSE IF patchTypeName >= TSetJump /\ patchTypeName <= TSetHook
                   THEN patchTypeName - (TSetJump - SetJump)
                   ELSE patchTypeName
        isNcpSet == t1 >= SetJump /\ t1 <= SetHook
        patchType == IF isNcpSet THEN t1 - (SetJump - Jump) ELSE t1
        expectingOverlay == labelName.tokens > 2
        addressValue == addrToInt(labelName.address)
        destAddress == IF forceThumb THEN OrOne(addressValue) ELSE addressValue
        overlayValue == addrToInt(labelName.ovNumber)
        destAddressOv == IF expectingOverlay THEN overlayValue ELSE -1
        srcAddressOv == IF patchType = Over THEN destAddressOv ELSE regionDest
    IN  IF addressValue = -1 THEN << >>
        ELSE IF expectingOverlay /\ labelName.ovPrefix # "ov" THEN << >>
        ELSE IF expectingOverlay /\ overlayValue = -1 THEN << >>
        ELSE << PatchInfo(srcAddressOv, ClearBit0(destAddress), destAddressOv, patchType,
                          sectionIdx, sectionSize, isNcpSet,
                          symbolAddr % 2 = 1, destAddress % 2 = 1, symbolName, job) >>

\* ------------------------------------------------------ the run's inputs

\* The destinations: the main ARM binary and the overlays.
Dests == {-1} \cup OvIds

\* What the linker makes of the objects (the external toolchain): whether it
\* fails, the bytes of user code and of bss it collects for the main region
\* and for the overlay region, and the halfword offset at which THUMB
\* functions land.
LinkOutcome(fail, armUser, armBss, ovUser, ovBss, thumbOff) ==
    [fail |-> fail, armUser |-> armUser, armBss |-> armBss, ovUser |-> ovUser,
     ovBss |-> ovBss, thumbOff |-> thumbOff]

RECURSIVE Pick(_, _)
\* The directives of ds at the indices of picked, in their order.
Pick(ds, picked) ==
    IF picked = {} THEN << >>
    ELSE LET i == CHOOSE k \in picked : \A j \in picked : k <= j
         IN  << ds[i] >> \o Pick(ds, picked \ {i})

\* The directive lists the objects of a target may hold: at most MaxPatches
\* of the directives above.
DirectiveLists(t) ==
    LET ds == MainDirectives \o (IF Len(t.regions) = 2 THEN OverlayDirectives ELSE << >>)
    IN  { Pick(ds, picked) :
            picked \in { x \in SUBSET (1..Len(ds)) : Cardinality(x) <= MaxPatches } }

\* Whether some directive of the list declares a function in region number r.
HasCode(ds, r) == \E i \in 1..Len(ds) : ds[i].job = r /\ ds[i].name.kind # "over"

\* The link outcomes possible for a target and its directives: a region
\* holds user code when a directive declares a function in it, and no
\* overlay sections exist without an overlay region.
LinkOutcomes(t, ds) ==
    { l \in { LinkOutcome(FALSE, 0, 0, 0, 0, 0), LinkOutcome(FALSE, 4, 4, 0, 4, 0),
              LinkOutcome(FALSE, 4, 0, 4, 0, 2), LinkOutcome(FALSE, 0, 4, 4, 4, 0),
              LinkOutcome(TRUE, 4, 0, 0, 0, 0) } :
        /\ HasCode(ds, 1) => l.armUser > 0
        /\ HasCode(ds, 2) => l.ovUser > 0
        /\ Len(t.regions) = 1 => (l.ovUser = 0 /\ l.ovBss = 0) }

\* One run's inputs: the target, the source-file jobs (the region number of
\* each), the directives of their objects and the link outcome.
RunInput(t, jobs, ds, l) == [target |-> t, jobs |-> jobs, directives |-> ds, link |-> l]

\* The inputs of a run with source files on target t: one job per region.
Inputs(t) ==
    UNION { { RunInput(t, [r \in 1..Len(t.regions) |-> r], ds, l) :
                l \in LinkOutcomes(t, ds) } :
            ds \in DirectiveLists(t) }

\* The inputs of a run whose list of source-file jobs is empty.
EmptyInputs ==
    { RunInput(t, << >>, << >>, LinkOutcome(FALSE, 0, 0, 0, 0, 0)) :
        t \in { u \in Targets : Len(u.regions) = 1 } }

\* ----------------------------------------------------------------- state

VARIABLES
    pc,                 \* the position in makeTarget
    err,                \* the message of the exception thrown, "" if none
    run,                \* the number of makeTarget runs started
    lastRun,            \* the inputs and the outcome of the run before
    input,              \* the inputs of the current run
    rom,                \* the ROM tree, per processor: arm, ovt, ov[id]
    bak,                \* the backup directory, per processor: dir, arm, ovt, ov[id]
    build,              \* the build directory, per processor: dir, ldscript
    rc,                 \* RebuildConfig: arm9Ovs, arm7Ovs
    m_arm,              \* PatchMaker::m_arm
    m_ovtEntries,       \* PatchMaker::m_ovtEntries
    m_bakOvtEntries,    \* PatchMaker::m_bakOvtEntries
    m_loadedOverlays,   \* PatchMaker::m_loadedOverlays
    m_newcodeAddrForDest,
    m_patchInfo,
    m_externSymbols,
    m_destWithNcpSet,   \* the destinations whose objects hold a .ncp_set section
    ldsRegions,         \* the LDSRegionEntry list of createLinkerScript
    m_elf,              \* the linked ELF
    m_autogenDataInfoForDest,
    m_newcodeDataForDest,
    overlapLog,         \* the pairs gatherInfoFromElf reported as overlapping
    patchIdx,           \* applyPatchesToRom: the next patch of m_patchInfo
    installLeft,        \* applyPatchesToRom: the destinations still to install
    calc                \* a call of an opcode maker: its arguments and its result

diskVars == << rom, bak, build, rc >>
memVars == << m_arm, m_ovtEntries, m_bakOvtEntries, m_loadedOverlays,
              m_newcodeAddrForDest, m_patchInfo, m_externSymbols, m_destWithNcpSet,
              ldsRegions, m_elf, m_autogenDataInfoForDest, m_newcodeDataForDest, overlapLog,
              patchIdx, installLeft >>
vars == << pc, err, run, input, lastRun, diskVars, memVars, calc >>

\* The two processors: each has its own binaries, backups and build directory
\* (arm9.bin / arm7.bin, overlay9 / overlay7, ldscript9.x / ldscript7.x).
Cpus == {"arm9", "arm7"}

\* The processor of the current target.
Cpu == IF input.target.arm9 THEN "arm9" ELSE "arm7"

\* The ROM tree of the unpatched game, and the empty backup and build
\* directories.
OrigRom == [arm |-> OrigArmData, ovt |-> OrigOvt, ov |-> [id \in OvIds |-> OrigOvFile(id)]]
NoBackup == [dir |-> FALSE, arm |-> NoFile, ovt |-> NoOvtFile, ov |-> [id \in OvIds |-> NoFile]]
NoBuild == [dir |-> FALSE, ldscript |-> [regions |-> << >>, ncpSet |-> << >>]]

\* No autogen record for a destination, and a fresh one.
NoAutogen == [present |-> FALSE, address |-> 0, curAddress |-> 0, data |-> << >>]
NewAutogen(address) ==
    [present |-> TRUE, address |-> address, curAddress |-> address, data |-> << >>]

\* No new-code block for a destination.
NoNewcode ==
    [present |-> FALSE, binData |-> << >>, binSize |-> 0, binAlign |-> 0,
     bssSize |-> 0, bssAlign |-> 0]

\* No ELF loaded.
NoElf == [loaded |-> FALSE]

\* A PatchMaker as constructed.
FreshPatchMaker ==
    /\ m_arm' = NoArm
    /\ m_ovtEntries' = << >>
    /\ m_bakOvtEntries' = << >>
    /\ m_loadedOverlays' = [id \in OvIds |-> NoOverlay]
    /\ m_newcodeAddrForDest' = [d \in Dests |-> 0]
    /\ m_patchInfo' = << >>
    /\ m_externSymbols' = << >>
    /\ m_destWithNcpSet' = << >>
    /\ ldsRegions' = << >>
    /\ m_elf' = NoElf
    /\ m_autogenDataInfoForDest' = [d \in Dests |-> NoAutogen]
    /\ m_newcodeDataForDest' = [d \in Dests |-> NoNewcode]
    /\ overlapLog' = {}
    /\ patchIdx' = 1
    /\ installLeft' = {}

\* No run before.
NoRun == [pc |-> "idle", input |-> << >>, rom |-> << >>]

\* The unpatched game, no backup, no build directory, nothing patched before.
InitMaker ==
    /\ pc = "idle"
    /\ err = ""
    /\ run = 0
    /\ lastRun = NoRun
    /\ input = RunInput([arm9 |-> TRUE, regions |-> << MainRegion >>], << >>, << >>,
                        LinkOutcome(FALSE, 0, 0, 0, 0, 0))
    /\ rom = [c \in Cpus |-> OrigRom]
    /\ bak = [c \in Cpus |-> NoBackup]
    /\ build = [c \in Cpus |-> NoBuild]
    /\ rc = [arm9Ovs |-> {}, arm7Ovs |-> {}]
    /\ m_arm = NoArm
    /\ m_ovtEntries = << >>
    /\ m_bakOvtEntries = << >>
    /\ m_loadedOverlays = [id \in OvIds |-> NoOverlay]
    /\ m_newcodeAddrForDest = [d \in Dests |-> 0]
    /\ m_patchInfo = << >>
    /\ m_externSymbols = << >>
    /\ m_destWithNcpSet = << >>
    /\ ldsRegions = << >>
    /\ m_elf = NoElf
    /\ m_autogenDataInfoForDest = [d \in Dests |-> NoAutogen]
    /\ m_newcodeDataForDest = [d \in Dests |-> NoNewcode]
    /\ overlapLog = {}
    /\ patchIdx = 1
    /\ installLeft = {}

\* No call of an opcode maker.
NoCalc == [fn |-> "", opCode |-> << >>, fromAddr |-> 0, toAddr |-> 0, result |-> << >>]

Init == InitMaker /\ calc = NoCalc

\* throw ncp::exception(msg)
Throw(msg) == pc' = "failed" /\ err' = msg

\* ------------------------------------------------------------- makeTarget

\* An entry that creates the directories before it looks at the list.
EnterDirectoriesFirst(in) ==
    /\ run' = run + 1
    /\ input' = in
    /\ lastRun' = [pc |-> pc, input |-> input, rom |-> rom]
    /\ FreshPatchMaker
    /\ build' = [build EXCEPT ![IF in.target.arm9 THEN "arm9" ELSE "arm7"].dir = TRUE]
    /\ bak' = [bak EXCEPT ![IF in.target.arm9 THEN "arm9" ELSE "arm7"].dir = TRUE]
    /\ UNCHANGED << rom, rc, calc >>
    /\ IF in.jobs = << >>
       THEN Throw("There are no source files to link.")
       ELSE pc' = "loadArmBin" /\ err' = ""

\* makeTarget up to the check of the source-file list, on a new PatchMaker.
Enter(in) ==
    /\ run' = run + 1
    /\ input' = in
    /\ lastRun' = [pc |-> pc, input |-> input, rom |-> rom]
    /\ FreshPatchMaker
    /\ UNCHANGED << diskVars, calc >>
    /\ IF in.jobs = << >>
       THEN Throw("There are no source files to link.")
       ELSE pc' = "createDirectories" /\ err' = ""

\* createBuildDirectory and createBackupDirectory
CreateDirectories ==
    /\ pc = "createDirectories"
    /\ build' = [build EXCEPT ![Cpu].dir = TRUE]
    /\ bak' = [bak EXCEPT ![Cpu].dir = TRUE]
    /\ pc' = "loadArmBin"
    /\ UNCHANGED << err, run, input, calc, lastRun, rom, rc, memVars >>

\* loadArmBin: from the backup when there is one, else from the ROM tree,
\* writing the backup.
LoadArmBin ==
    /\ pc = "loadArmBin"
    /\ IF bak[Cpu].arm.exists
       THEN /\ m_arm' = ArmLoad(bak[Cpu].arm.bytes)
            /\ bak' = bak
       ELSE /\ m_arm' = ArmLoad(rom[Cpu].arm)
            /\ bak' = [bak EXCEPT ![Cpu].arm = File(rom[Cpu].arm)]
    /\ pc' = "loadOverlayTableBin"
    /\ UNCHANGED << err, run, input, calc, lastRun, rom, build, rc, m_ovtEntries, m_bakOvtEntries,
                    m_loadedOverlays, m_newcodeAddrForDest, m_patchInfo,
                    m_externSymbols, m_destWithNcpSet, ldsRegions, m_elf, m_autogenDataInfoForDest,
                    m_newcodeDataForDest, overlapLog, patchIdx, installLeft >>

\* loadOverlayTableBin: from the backup when there is one, else from the ROM
\* tree, keeping a copy to back up.
LoadOverlayTableBin ==
    /\ pc = "loadOverlayTableBin"
    /\ IF bak[Cpu].ovt.exists
       THEN /\ m_ovtEntries' = bak[Cpu].ovt.entries
            /\ m_bakOvtEntries' = << >>
       ELSE /\ m_ovtEntries' = rom[Cpu].ovt
            /\ m_bakOvtEntries' = rom[Cpu].ovt
    /\ pc' = "loadOverlays"
    /\ UNCHANGED << err, run, input, calc, lastRun, diskVars, m_arm, m_loadedOverlays,
                    m_newcodeAddrForDest, m_patchInfo, m_externSymbols, m_destWithNcpSet, ldsRegions,
                    m_elf, m_autogenDataInfoForDest, m_newcodeDataForDest, overlapLog,
                    patchIdx, installLeft >>

\* What loadOverlayBin(ovID) makes of the overlay table, its backup copy and
\* the loaded overlays (st.ovt, st.bakOvt, st.loaded), for processor c.
loadOverlayBin(st, ovID, c) ==
    LET ovte == st.ovt[ovID]
        compressed == (ovte.flag \div OVERLAY_FLAG_COMP) % 2 = 1
        overlay ==
            IF bak[c].ov[ovID].exists
            THEN OverlayLoad(bak[c].ov[ovID].bytes, ovte.ramAddress, compressed)
            ELSE LET o == OverlayLoad(rom[c].ov[ovID], ovte.ramAddress, compressed)
                 IN  [o EXCEPT !.backupData = o.data]
    IN  [ovt |-> [st.ovt EXCEPT ![ovID].flag = 0],
         bakOvt |-> IF st.bakOvt # << >>
                    THEN [st.bakOvt EXCEPT ![ovID].flag = 0]
                    ELSE st.bakOvt,
         loaded |-> IF st.loaded[ovID].loaded THEN st.loaded
                    ELSE [st.loaded EXCEPT ![ovID] = overlay]]

\* getOverlay(ovID): the loaded overlay, loading it when it is not.
getOverlay(st, ovID, c) ==
    IF st.loaded[ovID].loaded THEN st ELSE loadOverlayBin(st, ovID, c)

RECURSIVE LoadAll(_, _, _)
\* for (u32 ovID : patchedOverlays) loadOverlayBin(ovID);
LoadAll(st, ids, c) ==
    IF ids = {} THEN st
    ELSE LET id == CHOOSE i \in ids : \A j \in ids : i <= j
         IN  LoadAll(loadOverlayBin(st, id, c), ids \ {id}, c)

\* The list makeTarget takes as the target's previously patched overlays.
PatchedOverlaysList == IF input.target.arm9 THEN "arm7Ovs" ELSE "arm9Ovs"

\* makeTarget: reload the overlays patched by the previous build.
LoadPatchedOverlays ==
    /\ pc = "loadOverlays"
    /\ LET st == LoadAll([ovt |-> m_ovtEntries, bakOvt |-> m_bakOvtEntries,
                          loaded |-> m_loadedOverlays], rc[PatchedOverlaysList], Cpu)
       IN  /\ m_ovtEntries' = st.ovt
           /\ m_bakOvtEntries' = st.bakOvt
           /\ m_loadedOverlays' = st.loaded
    /\ pc' = "fetchNewcodeAddr"
    /\ UNCHANGED << err, run, input, calc, lastRun, diskVars, m_arm, m_newcodeAddrForDest,
                    m_patchInfo, m_externSymbols, m_destWithNcpSet, ldsRegions, m_elf,
                    m_autogenDataInfoForDest, m_newcodeDataForDest, overlapLog,
                    patchIdx, installLeft >>

\* A new-code address that, in Append mode, lies over the overlay's bss.
RegionNewcodeAddrNoBss(region, ovtEntry) ==
    CASE region.mode = "Append" -> ovtEntry.ramAddress + ovtEntry.ramSize
      [] region.mode = "Replace" ->
            IF region.address = NoRegionAddress THEN ovtEntry.ramAddress
            ELSE region.address
      [] region.mode = "Create" -> region.address

\* The new-code address fetchNewcodeAddr gives a region of an overlay.
RegionNewcodeAddr(region, ovtEntry) ==
    CASE region.mode = "Append" ->
            ovtEntry.ramAddress + ovtEntry.ramSize + ovtEntry.bssSize
      [] region.mode = "Replace" ->
            IF region.address = NoRegionAddress THEN ovtEntry.ramAddress
            ELSE region.address
      [] region.mode = "Create" -> region.address

\* fetchNewcodeAddr
FetchNewcodeAddr ==
    /\ pc = "fetchNewcodeAddr"
    /\ m_newcodeAddrForDest' =
         [d \in Dests |->
            IF d = -1 THEN U32Value(ArmRead32(m_arm, ArenaLo))
            ELSE IF \E i \in 1..Len(input.target.regions) :
                        input.target.regions[i].destination = d
                 THEN LET i == CHOOSE k \in 1..Len(input.target.regions) :
                                   input.target.regions[k].destination = d
                      IN  RegionNewcodeAddr(input.target.regions[i], m_ovtEntries[d])
                 ELSE m_newcodeAddrForDest[d]]
    /\ pc' = "gatherInfoFromObjects"
    /\ UNCHANGED << err, run, input, calc, lastRun, diskVars, m_arm, m_ovtEntries, m_bakOvtEntries,
                    m_loadedOverlays, m_patchInfo, m_externSymbols, m_destWithNcpSet, ldsRegions, m_elf,
                    m_autogenDataInfoForDest, m_newcodeDataForDest, overlapLog,
                    patchIdx, installLeft >>

\* The value of the symbol of a label directive in its object: the offset
\* of a pointer in ".ncp_set", a multiple of four, for a set directive, else
\* the address of the function with its THUMB bit.
ObjSymbolValue(d) == IF InNcpSet(d) THEN 0 ELSE (IF d.funcThumb THEN 1 ELSE 0)

\* The patch records of the i-th directive of the objects as a section: the
\* record parseSymbol makes, and the pass over the function symbols, which
\* takes srcThumb from the function of the directive's section.
ParseSection(d, i, regionDest) ==
    LET parsed == parseSymbol([dot |-> TRUE, name |-> d.name], 0, i, d.secSize,
                              regionDest, d.job)
    IN  [k \in 1..Len(parsed) |-> [parsed[k] EXCEPT !.srcThumb = d.funcThumb]]

\* The patch records of the i-th directive of the objects as a symbol: none
\* for the symbol "ncp_dest".
ParseLabel(d, regionDest) ==
    IF d.name.tokens = 1 /\ d.name.kind = "dest" THEN << >>
    ELSE parseSymbol([dot |-> FALSE, name |-> d.name], ObjSymbolValue(d), -1, 0,
                     regionDest, d.job)

RECURSIVE ParseDirectivesStop(_, _, _, _)
\* A scan of the object of job j that a rejected name ends.
ParseDirectivesStop(ds, i, j, wantSection) ==
    IF i > Len(ds) THEN << >>
    ELSE IF ds[i].job = j /\ ds[i].isSection = wantSection
    THEN LET regionDest == input.target.regions[input.jobs[j]].destination
             parsed == IF wantSection THEN ParseSection(ds[i], i, regionDest)
                       ELSE ParseLabel(ds[i], regionDest)
         IN  IF parsed = << >> THEN << >>
             ELSE parsed \o ParseDirectivesStop(ds, i + 1, j, wantSection)
    ELSE ParseDirectivesStop(ds, i + 1, j, wantSection)

RECURSIVE ParseDirectives(_, _, _, _)
\* The patch records of the directives of job j, from the i-th on: the
\* sections (wantSection) or the symbols of its object, in their order.
ParseDirectives(ds, i, j, wantSection) ==
    IF i > Len(ds) THEN << >>
    ELSE (IF ds[i].job = j /\ ds[i].isSection = wantSection
          THEN LET regionDest == input.target.regions[input.jobs[j]].destination
               IN  IF wantSection THEN ParseSection(ds[i], i, regionDest)
                   ELSE ParseLabel(ds[i], regionDest)
          ELSE << >>)
         \o ParseDirectives(ds, i + 1, j, wantSection)

RECURSIVE GatherJobs(_, _)
\* The patch records of the objects of the jobs from the j-th on: per
\* object, the patches found in sections, then those found in symbols.
GatherJobs(ds, j) ==
    IF j > Len(input.jobs) THEN << >>
    ELSE ParseDirectives(ds, 1, j, TRUE) \o ParseDirectives(ds, 1, j, FALSE)
         \o GatherJobs(ds, j + 1)

RECURSIVE DestsWithNcpSet(_, _, _)
\* m_destWithNcpSet after the objects of the jobs from the j-th on: the
\* destination of each job whose object holds a section ".ncp_set", once.
DestsWithNcpSet(ds, j, found) ==
    IF j > Len(input.jobs) THEN found
    ELSE LET dest == input.target.regions[input.jobs[j]].destination
             hasSet == \E i \in 1..Len(ds) : ds[i].job = j /\ InNcpSet(ds[i])
             known == \E k \in 1..Len(found) : found[k] = dest
         IN  DestsWithNcpSet(ds, j + 1,
                 IF hasSet /\ ~known THEN Append(found, dest) ELSE found)

\* gatherInfoFromObjects: the patch records, the symbols of the
\* label-declared ones as extern symbols, and the destinations with a
\* section ".ncp_set".
GatherInfoFromObjects ==
    /\ pc = "gatherInfoFromObjects"
    /\ m_patchInfo' = GatherJobs(input.directives, 1)
    /\ m_externSymbols' =
         LET labels == SelectSeq(m_patchInfo', LAMBDA p : p.sectionIdx = -1)
         IN  [k \in 1..Len(labels) |-> labels[k].symbol]
    /\ m_destWithNcpSet' = DestsWithNcpSet(input.directives, 1, << >>)
    /\ pc' = "createLinkerScript"
    /\ UNCHANGED << err, run, input, calc, lastRun, diskVars, m_arm, m_ovtEntries,
                    m_bakOvtEntries, m_loadedOverlays, m_newcodeAddrForDest, ldsRegions,
                    m_elf, m_autogenDataInfoForDest, m_newcodeDataForDest, overlapLog,
                    patchIdx, installLeft >>

\* A planner that reserves a bridge of eight bytes for a Hook patch too.
AutogenBytesPlannedShort(info) ==
    IF info.patchType = Hook THEN SizeOfArm2ThumbJumpBridge
    ELSE IF info.patchType = Jump /\ ~info.destThumb /\ info.srcThumb
         THEN SizeOfArm2ThumbJumpBridge
         ELSE 0

\* The bridge bytes createLinkerScript reserves for one patch record.
AutogenBytesPlanned(info) ==
    IF info.patchType = Hook THEN SizeOfHookBridge
    ELSE IF info.patchType = Jump /\ ~info.destThumb /\ info.srcThumb
         THEN SizeOfArm2ThumbJumpBridge
         ELSE 0

RECURSIVE PlannedAutogen(_, _, _)
\* autogenDataSize of the region entry of destination dest: the sum over the
\* patch records, from the i-th on, that are no Over patch and whose job's
\* region has that destination.
PlannedAutogen(infos, i, dest) ==
    IF i > Len(infos) THEN 0
    ELSE (IF infos[i].patchType # Over
             /\ input.target.regions[input.jobs[infos[i].job]].destination = dest
          THEN AutogenBytesPlanned(infos[i])
          ELSE 0)
         + PlannedAutogen(infos, i + 1, dest)

RECURSIVE OrderedRegions(_)
\* std::sort by descending destination: overlays before the main binary.
OrderedRegions(rs) ==
    IF rs = {} THEN << >>
    ELSE LET r == CHOOSE x \in rs : \A y \in rs : x.destination >= y.destination
         IN  << r >> \o OrderedRegions(rs \ {r})

\* createLinkerScript: one memory entry and one region entry per region (the
\* origin is the new-code address, autogenDataSize the bridge bytes
\* reserved under ncp_autogendata) and one section statement per
\* destination of m_destWithNcpSet, written to the build directory.
CreateLinkerScript ==
    /\ pc = "createLinkerScript"
    /\ LET ordered == OrderedRegions({ input.target.regions[i] :
                                         i \in 1..Len(input.target.regions) })
       IN  ldsRegions' =
             [k \in 1..Len(ordered) |->
                [dest |-> ordered[k].destination,
                 origin |-> m_newcodeAddrForDest[ordered[k].destination],
                 length |-> ordered[k].length,
                 autogenDataSize |->
                    PlannedAutogen(m_patchInfo, 1, ordered[k].destination)]]
    /\ build' = [build EXCEPT ![Cpu].ldscript =
                     [regions |-> ldsRegions', ncpSet |-> m_destWithNcpSet]]
    /\ pc' = "linkElfFile"
    /\ UNCHANGED << err, run, input, calc, lastRun, rom, bak, rc, m_arm, m_ovtEntries,
                    m_bakOvtEntries, m_loadedOverlays, m_newcodeAddrForDest,
                    m_patchInfo, m_externSymbols, m_destWithNcpSet, m_elf, m_autogenDataInfoForDest,
                    m_newcodeDataForDest, overlapLog, patchIdx, installLeft >>

\* ------------------------------------------------------------- the linker

\* The text section the linker lays out for a region entry: the user code
\* collected for it, then the span reserved under ncp_autogendata, filled
\* with zeros (FILL(0)); and the bss section.
LinkedSections(s, link) ==
    LET user == IF s.dest = -1 THEN link.armUser ELSE link.ovUser
    IN  [text |-> [i \in 1..user |-> 200 + i] \o Zeros(s.autogenDataSize),
         bssSize |-> IF s.dest = -1 THEN link.armBss ELSE link.ovBss,
         autogenSymbol |-> s.autogenDataSize # 0,
         autogenValue |-> s.origin + user]

RECURSIVE LinkedNcpSet(_, _, _, _)
\* The sections the linker makes of the statements ".ncp_set" and
\* ".ncp_set_ov<N>" of the script, from the k-th on, in the memory "ncp_set"
\* at origin 0; placed are the directives whose pointers an earlier
\* statement took.  The statement of an overlay takes the pointers of the
\* objects of its jobs, the statement of the main binary, "* (.ncp_set)",
\* those of every object; a statement left without pointers makes no
\* section.  A section holds, per pointer, the directive's symbol and the
\* address of its function.
LinkedNcpSet(script, ds, k, placed) ==
    IF k > Len(script.ncpSet) THEN << >>
    ELSE LET p == script.ncpSet[k]
             destOf(d) == input.target.regions[input.jobs[d.job]].destination
             mine == { i \in 1..Len(ds) :
                         /\ InNcpSet(ds[i]) /\ i \notin placed
                         /\ (p = -1 \/ destOf(ds[i]) = p) }
             members == Pick(ds, mine)
             origin(d) == LET n == CHOOSE n \in 1..Len(script.regions) :
                                      script.regions[n].dest = destOf(d)
                          IN  script.regions[n].origin
             section == [dest |-> p, addr |-> 4 * Cardinality(placed),
                         symbols |-> [n \in 1..Len(members) |->
                                        [dot |-> FALSE, name |-> members[n].name]],
                         words |-> [n \in 1..Len(members) |->
                                      origin(members[n])
                                      + (IF members[n].funcThumb THEN 1 ELSE 0)]]
         IN  (IF mine = {} THEN << >> ELSE << section >>)
             \o LinkedNcpSet(script, ds, k + 1, placed \cup mine)

\* The ELF the linker makes of a linker script and the objects (their
\* directives ds): per destination the sections ".arm.text"/".arm.bss" or
\* ".ov<N>.text"/".ov<N>.bss" and the symbol ncp_autogendata[_ov<N>], and the
\* sections ".ncp_set[_ov<N>]".
LinkedElf(script, link, ds) ==
    [loaded |-> TRUE,
     dest |-> [d \in Dests |->
        IF \E k \in 1..Len(script.regions) : script.regions[k].dest = d
        THEN LET k == CHOOSE n \in 1..Len(script.regions) : script.regions[n].dest = d
                 sec == LinkedSections(script.regions[k], link)
             IN  [present |-> TRUE, text |-> sec.text, bssSize |-> sec.bssSize,
                  autogenSymbol |-> sec.autogenSymbol,
                  autogenValue |-> sec.autogenValue, origin |-> script.regions[k].origin]
        ELSE [present |-> FALSE, text |-> << >>, bssSize |-> 0,
              autogenSymbol |-> FALSE, autogenValue |-> 0, origin |-> 0]],
     ncpSet |-> LinkedNcpSet(script, ds, 1, {}),
     thumbOff |-> link.thumbOff]

\* The value of the symbol the linker defines for a patch record that is no
\* Over patch: an address in the user code of its job's region, with bit 0
\* set when the symbol is itself a THUMB function (a label-declared patch).
SymbolValue(elf, info, dest) ==
    elf.dest[dest].origin
    + (IF info.srcThumb THEN elf.thumbOff ELSE 0)
    + (IF info.srcThumb /\ info.sectionIdx = -1 THEN 1 ELSE 0)

\* The index in the linked ELF of the text section of a destination and of
\* the section of the i-th patch record (an Over patch).
ElfTextSection(dest) == 10 + dest
ElfOverSection(i) == 20 + i

\* The bytes of the section of an Over patch.
OverSectionData(info) == [i \in 1..info.sectionSize |-> 100 + i]

\* linkElfFile and loadElfFile: run the linker on the script and load its
\* output; a linker failure is fatal.
LinkElfFile ==
    /\ pc = "linkElfFile"
    /\ IF input.link.fail
       THEN /\ Throw("Could not link the ELF file.")
            /\ m_elf' = m_elf
       ELSE /\ m_elf' = LinkedElf(build[Cpu].ldscript, input.link, input.directives)
            /\ pc' = "gatherInfoFromElf"
            /\ err' = err
    /\ UNCHANGED << run, input, calc, lastRun, diskVars, m_arm, m_ovtEntries, m_bakOvtEntries,
                    m_loadedOverlays, m_newcodeAddrForDest, m_patchInfo,
                    m_externSymbols, m_destWithNcpSet, ldsRegions, m_autogenDataInfoForDest,
                    m_newcodeDataForDest, overlapLog, patchIdx, installLeft >>

\* ------------------------------------------------------ gatherInfoFromElf

\* Util::overlaps (util.hpp, not in this source): whether the ranges
\* [x1, x2) and [y1, y2) have an address in common.
overlaps(x1, x2, y1, y2) ==
    (IF x1 > y1 THEN x1 ELSE y1) < (IF x2 < y2 THEN x2 ELSE y2)

\* A check that takes every patch for one word, the section of an Over patch
\* too.
OverlapSizeOneWord(info) == 4

\* aSz, bSz: the size the overlap check gives a patch record.
OverlapSize(info) == IF info.patchType = Over THEN info.sectionSize ELSE 4

\* The pairs the overlap check reports: i before j, the same destination,
\* overlapping ranges.
OverlappingPairs(infos) ==
    { pair \in (1..Len(infos)) \X (1..Len(infos)) :
        /\ pair[1] < pair[2]
        /\ infos[pair[1]].destAddressOv = infos[pair[2]].destAddressOv
        /\ overlaps(infos[pair[1]].destAddress,
                    infos[pair[1]].destAddress + OverlapSize(infos[pair[1]]),
                    infos[pair[2]].destAddress,
                    infos[pair[2]].destAddress + OverlapSize(infos[pair[2]])) }

\* The patch record after the pass over the symbols of the linked ELF and,
\* for an Over patch, the pass over its sections: the source address and
\* the section index are filled in.  The symbol of a set patch lies in a
\* section ".ncp_set[_ov<N>]", at the place of its pointer.
ResolvedPatch(elf, info, i) ==
    IF info.patchType = Over
    THEN [info EXCEPT !.srcAddress = info.destAddress, !.sectionIdx = ElfOverSection(i)]
    ELSE IF info.isNcpSet /\ info.sectionIdx = -1
    THEN LET k == CHOOSE k \in 1..Len(elf.ncpSet) :
                    \E n \in 1..Len(elf.ncpSet[k].symbols) :
                       elf.ncpSet[k].symbols[n] = info.symbol
             n == CHOOSE n \in 1..Len(elf.ncpSet[k].symbols) :
                    elf.ncpSet[k].symbols[n] = info.symbol
         IN  [info EXCEPT !.srcAddress = elf.ncpSet[k].addr + 4 * (n - 1),
                          !.sectionIdx = 30 + k]
    ELSE LET dest == input.target.regions[input.jobs[info.job]].destination
         IN  [info EXCEPT !.srcAddress = SymbolValue(elf, info, dest),
                          !.sectionIdx = ElfTextSection(dest)]

\* Util::read<u32>(&sectionData[offset]) on the data of a section
\* ".ncp_set[_ov<N>]": the word at the offset.  A read outside the data of
\* the section is undefined: it yields some word, or the program does not
\* survive it (-1).
NcpSetRead(section, offset) ==
    IF offset >= 0 /\ offset % 4 = 0 /\ offset + 4 <= 4 * Len(section.words)
    THEN { section.words[(offset \div 4) + 1] }
    ELSE { -1, 0, Header.ramAddress + 2 }

RECURSIVE NcpSetSources(_, _, _)
\* The source addresses a set patch can have after the pass over the
\* sections ".ncp_set[_ov<N>]" from the k-th on: each of them replaces the
\* source address of every set patch by the word it reads at
\* srcAddress - sh_addr.
NcpSetSources(elf, k, srcAddress) ==
    IF k > Len(elf.ncpSet) \/ srcAddress = -1 THEN { srcAddress }
    ELSE UNION { NcpSetSources(elf, k + 1, word) :
                   word \in NcpSetRead(elf.ncpSet[k], srcAddress - elf.ncpSet[k].addr) }

\* The patch records gatherInfoFromElf can end up with: resolved, the set
\* patches with one of the source addresses the pass over the sections can
\* give them.
ResolvedPatches(elf, infos) ==
    LET resolved == [i \in 1..Len(infos) |-> ResolvedPatch(elf, infos[i], i)]
        sources(i) == IF resolved[i].isNcpSet
                      THEN NcpSetSources(elf, 1, resolved[i].srcAddress)
                      ELSE { resolved[i].srcAddress }
    IN  { [i \in 1..Len(infos) |-> [resolved[i] EXCEPT !.srcAddress = src[i]]] :
            src \in { f \in [1..Len(infos) -> UNION { sources(i) : i \in 1..Len(infos) }] :
                        \A i \in 1..Len(infos) : f[i] \in sources(i) } }

\* The new-code block insertSection records for a destination.
NewcodeOf(elfDest) ==
    IF elfDest.present
    THEN [present |-> TRUE, binData |-> elfDest.text, binSize |-> Len(elfDest.text),
          binAlign |-> 4, bssSize |-> elfDest.bssSize, bssAlign |-> 4]
    ELSE NoNewcode

\* gatherInfoFromElf: resolve the patch records, create the autogen records,
\* check the patches for overlaps (reporting every pair, then throwing),
\* and collect the new-code blocks.  A read that the program does not
\* survive ends the run with nothing more done.
GatherInfoFromElf ==
    /\ pc = "gatherInfoFromElf"
    /\ \E infos \in ResolvedPatches(m_elf, m_patchInfo) : m_patchInfo' = infos
    /\ m_autogenDataInfoForDest' =
         [d \in Dests |->
            IF m_elf.dest[d].autogenSymbol THEN NewAutogen(m_elf.dest[d].autogenValue)
            ELSE NoAutogen]
    /\ overlapLog' = IF \E i \in 1..Len(m_patchInfo') : m_patchInfo'[i].srcAddress = -1
                     THEN {}
                     ELSE OverlappingPairs(m_patchInfo')
    /\ IF \E i \in 1..Len(m_patchInfo') : m_patchInfo'[i].srcAddress = -1
       THEN /\ Throw("Segmentation fault")
            /\ UNCHANGED << m_newcodeDataForDest, installLeft >>
       ELSE IF overlapLog' # {}
       THEN /\ Throw("Overlapping patches were detected.")
            /\ UNCHANGED << m_newcodeDataForDest, installLeft >>
       ELSE /\ m_newcodeDataForDest' = [d \in Dests |-> NewcodeOf(m_elf.dest[d])]
            /\ installLeft' = { d \in Dests : m_elf.dest[d].present }
            /\ pc' = "applyPatches"
            /\ err' = err
    /\ patchIdx' = 1
    /\ UNCHANGED << run, input, calc, lastRun, diskVars, m_arm, m_ovtEntries, m_bakOvtEntries,
                    m_loadedOverlays, m_newcodeAddrForDest, m_externSymbols, m_destWithNcpSet,
                    ldsRegions, m_elf >>

\* ------------------------------------------------------ applyPatchesToRom

\* The state applyPatchesToRom works on.
ApplyState ==
    [arm |-> m_arm, ovt |-> m_ovtEntries, bakOvt |-> m_bakOvtEntries,
     loaded |-> m_loadedOverlays, autogen |-> m_autogenDataInfoForDest, err |-> ""]

\* Whether the n bytes at addr lie in the binary of destination ov; an
\* access outside is a fatal error (ICodeBin, not in this source).
BinInRange(st, ov, addr, n) ==
    LET base == IF ov = -1 THEN Header.ramAddress ELSE st.loaded[ov].ramAddress
        size == IF ov = -1 THEN Len(st.arm.data) ELSE Len(st.loaded[ov].data)
    IN  addr >= base /\ addr + n <= base + size
OutOfRange == "Address out of range."

\* bin->read<u32>(addr) and bin->writeBytes(addr, ...) on the binary of
\* destination ov.
BinRead32(st, ov, addr) ==
    IF ov = -1 THEN ArmRead32(st.arm, addr) ELSE OvRead32(st.loaded[ov], addr)
BinWrite(st, ov, addr, bytes) ==
    IF ~BinInRange(st, ov, addr, Len(bytes)) THEN [st EXCEPT !.err = OutOfRange]
    ELSE IF ov = -1 THEN [st EXCEPT !.arm = ArmWrite(@, addr, bytes)]
    ELSE [st EXCEPT !.loaded[ov] = OvWrite(@, addr, bytes)]

\* A u16 as its two little-endian bytes, and the u16 a u32 is cut to.
U16Bytes(h) == << h % Pow2_8, h \div Pow2_8 >>
LowHalf(w) == << w[1], w[2] >>

\* Appending a bridge to an autogen record and moving its cursor.
AppendBridge(info, bytes) ==
    [info EXCEPT !.data = @ \o bytes, !.curAddress = @ + Len(bytes)]

\* A bridge that holds the address of the patch body as it is.
Arm2ThumbJumpBridgeAsIs(p) == MkWord(229, 2093060) \o U32Bytes(p.srcAddress)

\* The eight bytes of an ARM-to-THUMB jump bridge: LDR PC, [PC,#-4] and the
\* address of the patch body with its THUMB bit.
Arm2ThumbJumpBridge(p) == MkWord(229, 2093060) \o U32Bytes(OrOne(p.srcAddress))

\* case PatchType::Jump
ApplyJump(st, p) ==
    IF ~p.destThumb /\ ~p.srcThumb
    THEN BinWrite(st, p.destAddressOv, p.destAddress,
                  makeJumpOpCode(MkWord(armOpcodeB, 0), p.destAddress, p.srcAddress))
    ELSE IF ~p.destThumb /\ p.srcThumb
    THEN LET info == st.autogen[p.srcAddressOv]
             bridgeAddr == info.curAddress
             st1 == BinWrite(st, p.destAddressOv, p.destAddress,
                        makeJumpOpCode(MkWord(armOpcodeB, 0), p.destAddress, bridgeAddr))
         IN  IF ~info.present
             THEN [st EXCEPT !.err =
                     "Unexpected p->srcAddressOv for m_autogenDataInfoForDest encountered."]
             ELSE IF st1.err # "" THEN st1
             ELSE [st1 EXCEPT !.autogen[p.srcAddressOv] =
                     AppendBridge(info, Arm2ThumbJumpBridge(p))]
    ELSE LET opCode == IF ~p.srcThumb THEN thumbOpCodeBLX1 ELSE thumbOpCodeBL1
         IN  BinWrite(st, p.destAddressOv, p.destAddress,
                 U16Bytes(thumbOpCodePushLR)
                 \o LowHalf(makeThumbJumpOpCode(opCode, p.destAddress, p.srcAddress))
                 \o U16Bytes(thumbOpCodePopPC))

\* A Call case without the check for armv4.
ApplyCallAnyCpu(st, p, arm9) ==
    IF ~p.destThumb /\ ~p.srcThumb
    THEN BinWrite(st, p.destAddressOv, p.destAddress,
                  makeJumpOpCode(MkWord(armOpcodeBL, 0), p.destAddress, p.srcAddress))
    ELSE IF ~p.destThumb /\ p.srcThumb
    THEN LET opcode == MkWord(armOpCodeBLX, ((p.srcAddress % 4) \div 2) * (2^23))
         IN  BinWrite(st, p.destAddressOv, p.destAddress,
                      makeJumpOpCode(opcode, p.destAddress, p.srcAddress))
    ELSE LET opCode == IF ~p.srcThumb THEN thumbOpCodeBLX1 ELSE thumbOpCodeBL1
         IN  BinWrite(st, p.destAddressOv, p.destAddress,
                      makeThumbJumpOpCode(opCode, p.destAddress, p.srcAddress))

\* case PatchType::Call
ApplyCall(st, p, arm9) ==
    IF p.destThumb # p.srcThumb /\ ~arm9
    THEN [st EXCEPT !.err =
            "Cannot create thumb-interworking veneer: BLX not supported on armv4."]
    ELSE IF ~p.destThumb /\ ~p.srcThumb
    THEN BinWrite(st, p.destAddressOv, p.destAddress,
                  makeJumpOpCode(MkWord(armOpcodeBL, 0), p.destAddress, p.srcAddress))
    ELSE IF ~p.destThumb /\ p.srcThumb
    THEN LET opcode == MkWord(armOpCodeBLX, ((p.srcAddress % 4) \div 2) * (2^23))
         IN  BinWrite(st, p.destAddressOv, p.destAddress,
                      makeJumpOpCode(opcode, p.destAddress, p.srcAddress))
    ELSE LET opCode == IF ~p.srcThumb THEN thumbOpCodeBLX1 ELSE thumbOpCodeBL1
         IN  BinWrite(st, p.destAddressOv, p.destAddress,
                      makeThumbJumpOpCode(opCode, p.destAddress, p.srcAddress))

\* The twenty bytes of a hook bridge at hookBridgeAddr.
HookBridge(p, ogOpCode, hookBridgeAddr) ==
    armHookPush
    \o makeJumpOpCode(MkWord(armOpcodeBL, 0), hookBridgeAddr + 4, p.srcAddress)
    \o armHookPop
    \o fixupOpCode(ogOpCode, p.destAddress, hookBridgeAddr + 12)
    \o makeJumpOpCode(MkWord(armOpcodeB, 0), hookBridgeAddr + 16, p.destAddress + 4)

\* case PatchType::Hook
ApplyHook(st, p) ==
    IF p.destThumb \/ p.srcThumb
    THEN [st EXCEPT !.err = "Injecting hook is not supported."]
    ELSE IF ~BinInRange(st, p.destAddressOv, p.destAddress, 4)
    THEN [st EXCEPT !.err = OutOfRange]
    ELSE LET ogOpCode == BinRead32(st, p.destAddressOv, p.destAddress)
             info == st.autogen[p.srcAddressOv]
             hookBridgeAddr == info.curAddress
             st1 == BinWrite(st, p.destAddressOv, p.destAddress,
                        makeJumpOpCode(MkWord(armOpcodeB, 0), p.destAddress, hookBridgeAddr))
         IN  IF ~info.present
             THEN [st EXCEPT !.err =
                     "Unexpected p->srcAddressOv for m_autogenDataInfoForDest encountered."]
             ELSE [st1 EXCEPT !.autogen[p.srcAddressOv] =
                     AppendBridge(info, HookBridge(p, ogOpCode, hookBridgeAddr))]

\* case PatchType::Over
ApplyOver(st, p) ==
    BinWrite(st, p.destAddressOv, p.destAddress, OverSectionData(p))

\* One iteration of the patch loop: fetch the binary of the patch's
\* destination (loading the overlay when needed) and apply the patch.
ApplyOnePatch(st, p, arm9, c) ==
    LET got == IF p.destAddressOv = -1 THEN st
               ELSE LET o == getOverlay(st, p.destAddressOv, c)
                    IN  [st EXCEPT !.ovt = o.ovt, !.bakOvt = o.bakOvt, !.loaded = o.loaded]
    IN  CASE p.patchType = Jump -> ApplyJump(got, p)
          [] p.patchType = Call -> ApplyCall(got, p, arm9)
          [] p.patchType = Hook -> ApplyHook(got, p)
          [] p.patchType = Over -> ApplyOver(got, p)

\* A patch loop that stores the ARM binary in the ROM tree after each patch.
ApplyPatchStoring ==
    /\ pc = "applyPatches"
    /\ patchIdx <= Len(m_patchInfo)
    /\ LET st == ApplyOnePatch(ApplyState, m_patchInfo[patchIdx], input.target.arm9, Cpu)
       IN  /\ m_arm' = st.arm
           /\ m_ovtEntries' = st.ovt
           /\ m_bakOvtEntries' = st.bakOvt
           /\ m_loadedOverlays' = st.loaded
           /\ m_autogenDataInfoForDest' = st.autogen
           /\ rom' = [rom EXCEPT ![Cpu].arm = st.arm.data]
           /\ IF st.err # ""
              THEN Throw(st.err) /\ patchIdx' = patchIdx
              ELSE pc' = pc /\ err' = err /\ patchIdx' = patchIdx + 1
    /\ UNCHANGED << run, input, calc, lastRun, bak, build, rc, m_newcodeAddrForDest,
                    m_patchInfo, m_externSymbols, m_destWithNcpSet, ldsRegions, m_elf,
                    m_newcodeDataForDest, overlapLog, installLeft >>

\* applyPatchesToRom, the patch loop: the next patch record.
ApplyPatch ==
    /\ pc = "applyPatches"
    /\ patchIdx <= Len(m_patchInfo)
    /\ LET st == ApplyOnePatch(ApplyState, m_patchInfo[patchIdx], input.target.arm9, Cpu)
       IN  /\ m_arm' = st.arm
           /\ m_ovtEntries' = st.ovt
           /\ m_bakOvtEntries' = st.bakOvt
           /\ m_loadedOverlays' = st.loaded
           /\ m_autogenDataInfoForDest' = st.autogen
           /\ IF st.err # ""
              THEN Throw(st.err) /\ patchIdx' = patchIdx
              ELSE pc' = pc /\ err' = err /\ patchIdx' = patchIdx + 1
    /\ UNCHANGED << run, input, calc, lastRun, diskVars, m_newcodeAddrForDest, m_patchInfo,
                    m_externSymbols, m_destWithNcpSet, ldsRegions, m_elf, m_newcodeDataForDest,
                    overlapLog, installLeft >>

\* A copy of the new code as the linker made it, its bridge span left empty.
NewcodeBytesAsLinked(newcodeInfo, autogenDataInfo) ==
    SubBytes(newcodeInfo.binData, 0, newcodeInfo.binSize)

\* What writeNewcode copies to its target: the new code without the span
\* reserved for the bridges, then the bridges.
NewcodeBytes(newcodeInfo, autogenDataInfo) ==
    LET autogenDataSize == IF autogenDataInfo.present THEN Len(autogenDataInfo.data) ELSE 0
    IN  SubBytes(newcodeInfo.binData, 0, newcodeInfo.binSize - autogenDataSize)
        \o autogenDataInfo.data

\* std::memcpy(&data[dst], &data[src], n) with dst > src.  When the two
\* ranges overlap the behaviour is undefined: the copy may behave as memmove
\* or copy forward byte by byte, reading bytes it has already written.
MemcpyOutcomes(data, dst, src, n) ==
    LET moved == WriteAt(data, dst, SubBytes(data, src, n))
        forward == [i \in 1..Len(data) |->
                      IF i > dst /\ i <= dst + n
                      THEN data[src + 1 + ((i - dst - 1) % (dst - src))]
                      ELSE data[i]]
    IN  IF n = 0 \/ dst >= src + n THEN { moved } ELSE { moved, forward }

RECURSIVE AutoloadListBytes(_)
\* The autoload list as written after the new code: three u32 per entry.
AutoloadListBytes(list) ==
    IF list = << >> THEN << >>
    ELSE U32Bytes(list[1].address) \o U32Bytes(list[1].size) \o U32Bytes(list[1].bssSize)
         \o AutoloadListBytes(Tail(list))

\* heapReloc: the value stored at arenaLo.
HeapReloc(newcodeAddr, newcodeInfo) ==
    newcodeAddr + newcodeInfo.binSize
    + (newcodeInfo.bssAlign - (newcodeInfo.binSize % newcodeInfo.bssAlign))
    + newcodeInfo.bssSize

\* An entry that leaves the bss of the new code out.
NewAutoLoadEntryNoBss(newcodeAddr, newcodeInfo, binAutoloadStart) ==
    [address |-> newcodeAddr, size |-> newcodeInfo.binSize,
     bssSize |-> 0, dataOff |-> binAutoloadStart]

\* The entry inserted at the head of the autoload list.
NewAutoLoadEntry(newcodeAddr, newcodeInfo, binAutoloadStart) ==
    [address |-> newcodeAddr, size |-> newcodeInfo.binSize,
     bssSize |-> newcodeInfo.bssSize, dataOff |-> binAutoloadStart]

\* An installation that moves the end of the autoload list by the size of
\* the new code only.
NewAutoloadListEndNoEntry(autoloadListEnd, newcodeInfo) ==
    autoloadListEnd + newcodeInfo.binSize

\* moduleParams->autoloadListEnd after the installation.
NewAutoloadListEnd(autoloadListEnd, newcodeInfo) ==
    autoloadListEnd + newcodeInfo.binSize + SizeOfAutoLoadEntry

\* The ARM binaries the installation of new code into the main binary may
\* leave (dest == -1).
InstallArm(arm, newcodeInfo, autogenDataInfo, newcodeAddr) ==
    IF newcodeInfo.binSize + newcodeInfo.bssSize = 0 THEN { arm }
    ELSE
    LET extended == Resize(arm.data, Len(arm.data) + newcodeInfo.binSize + SizeOfAutoLoadEntry)
        relocated == WriteAt(extended, ArenaLo - Header.ramAddress,
                             U32Bytes(HeapReloc(newcodeAddr, newcodeInfo)))
        moduleParams == ModuleParams(relocated)
        binAutoloadListStart == moduleParams.autoloadListStart - Header.ramAddress
        binAutoloadStart == moduleParams.autoloadStart - Header.ramAddress
        autoloadList ==
            << NewAutoLoadEntry(newcodeAddr, newcodeInfo, binAutoloadStart) >>
            \o arm.autoloadList
        shiftedSet ==
            IF newcodeInfo.binSize # 0
            THEN { WriteAt(moved, binAutoloadStart, NewcodeBytes(newcodeInfo, autogenDataInfo)) :
                     moved \in MemcpyOutcomes(relocated, binAutoloadStart + newcodeInfo.binSize,
                                   binAutoloadStart, binAutoloadListStart - binAutoloadStart) }
            ELSE { relocated }
    IN  { [data |-> WriteAt(
                      SetAutoloadList(shifted,
                          moduleParams.autoloadListStart + newcodeInfo.binSize,
                          NewAutoloadListEnd(moduleParams.autoloadListEnd, newcodeInfo)),
                      binAutoloadListStart + newcodeInfo.binSize,
                      AutoloadListBytes(autoloadList)),
           autoloadList |-> autoloadList] : shifted \in shiftedSet }

\* The message of the overlay-size error.
ExceedsMaxLength == "Overlay exceeds max length."

\* An append that puts the new code right after the data, over the old bss.
AppendedSizeNoBss(szData, ovtEntry, newcodeInfo) ==
    szData + newcodeInfo.binSize

\* newSzData: the size of an overlay after new code is appended.
AppendedSize(szData, ovtEntry, newcodeInfo) ==
    szData + ovtEntry.bssSize + newcodeInfo.binSize

\* case BuildTarget::Mode::Append, on the state after getOverlay(dest).
InstallAppend(st, dest, region, newcodeInfo) ==
    LET cleared == [st EXCEPT !.ovt[dest].compressed = 0, !.ovt[dest].flag = 0]
        ovtEntry == cleared.ovt[dest]
        data == st.loaded[dest].data
        szData == Len(data)
        totalOvSize == szData + ovtEntry.bssSize + newcodeInfo.binSize + newcodeInfo.bssSize
        newSzData == AppendedSize(szData, ovtEntry, newcodeInfo)
    IN  IF totalOvSize > region.length
        THEN [cleared EXCEPT !.err = ExceedsMaxLength]
        ELSE IF newcodeInfo.binSize > 0
        THEN [cleared EXCEPT
                !.loaded[dest].data =
                    WriteAt(Resize(data, newSzData), szData + ovtEntry.bssSize,
                            NewcodeBytes(newcodeInfo, st.autogen[dest])),
                !.ovt[dest].ramSize = newSzData,
                !.ovt[dest].bssSize = newcodeInfo.bssSize]
        ELSE [cleared EXCEPT !.ovt[dest].bssSize = @ + newcodeInfo.bssSize]

\* case BuildTarget::Mode::Replace, on the state after getOverlay(dest).
InstallReplace(st, dest, region, newcodeInfo, newcodeAddr) ==
    LET entered == [st EXCEPT !.ovt[dest].ramAddress = newcodeAddr,
                              !.ovt[dest].ramSize = newcodeInfo.binSize,
                              !.ovt[dest].bssSize = newcodeInfo.bssSize,
                              !.ovt[dest].sinitStart = 0,
                              !.ovt[dest].sinitEnd = 0,
                              !.ovt[dest].compressed = 0,
                              !.ovt[dest].flag = 0]
        totalOvSize == newcodeInfo.binSize + newcodeInfo.bssSize
    IN  IF totalOvSize > region.length
        THEN [entered EXCEPT !.err = ExceedsMaxLength]
        ELSE [entered EXCEPT !.loaded[dest].data =
                IF newcodeInfo.binSize = 0 THEN << >>
                ELSE NewcodeBytes(newcodeInfo, st.autogen[dest])]

\* The installation of new code into overlay dest.
InstallOverlay(st, dest, regions, newcodeInfo, newcodeAddr, c) ==
    IF ~\E i \in 1..Len(regions) : regions[i].destination = dest
    THEN [st EXCEPT !.err = "region of overlay set to add code could not be found!"]
    ELSE
    LET i == CHOOSE k \in 1..Len(regions) :
                /\ regions[k].destination = dest
                /\ \A j \in 1..(k - 1) : regions[j].destination # dest
        region == regions[i]
        o == getOverlay(st, dest, c)
        got == [st EXCEPT !.ovt = o.ovt, !.bakOvt = o.bakOvt, !.loaded = o.loaded]
    IN  CASE region.mode = "Append" -> InstallAppend(got, dest, region, newcodeInfo)
          [] region.mode = "Replace" ->
                InstallReplace(got, dest, region, newcodeInfo, newcodeAddr)
          [] region.mode = "Create" ->
                [st EXCEPT !.err = "Creating new overlays is not yet supported."]

\* applyPatchesToRom, the installation loop: the new-code block of one
\* destination (the map's iteration order is not specified).
InstallNewcode ==
    /\ pc = "applyPatches"
    /\ patchIdx > Len(m_patchInfo)
    /\ \E dest \in installLeft :
         /\ installLeft' = installLeft \ {dest}
         /\ IF dest = -1
            THEN /\ \E arm \in InstallArm(m_arm, m_newcodeDataForDest[dest],
                                   m_autogenDataInfoForDest[dest],
                                   m_newcodeAddrForDest[dest]) : m_arm' = arm
                 /\ pc' = pc /\ err' = err
                 /\ UNCHANGED << m_ovtEntries, m_bakOvtEntries, m_loadedOverlays >>
            ELSE LET st == InstallOverlay(ApplyState, dest, input.target.regions,
                               m_newcodeDataForDest[dest], m_newcodeAddrForDest[dest], Cpu)
                 IN  /\ m_ovtEntries' = st.ovt
                     /\ m_bakOvtEntries' = st.bakOvt
                     /\ m_loadedOverlays' = st.loaded
                     /\ m_arm' = m_arm
                     /\ IF st.err # "" THEN Throw(st.err) ELSE pc' = pc /\ err' = err
    /\ UNCHANGED << run, input, calc, lastRun, diskVars, m_newcodeAddrForDest, m_patchInfo,
                    m_externSymbols, m_destWithNcpSet, ldsRegions, m_elf, m_autogenDataInfoForDest,
                    m_newcodeDataForDest, overlapLog, patchIdx >>

\* unloadElfFile, and the update of the list of patched overlays: the
\* loaded overlays that are dirty.
FinishApply ==
    /\ pc = "applyPatches"
    /\ patchIdx > Len(m_patchInfo)
    /\ installLeft = {}
    /\ m_elf' = NoElf
    /\ rc' = [rc EXCEPT ![PatchedOverlaysList] =
                { id \in OvIds : m_loadedOverlays[id].loaded /\ m_loadedOverlays[id].dirty }]
    /\ pc' = "saveOverlayBins"
    /\ UNCHANGED << err, run, input, calc, lastRun, rom, bak, build, m_arm, m_ovtEntries,
                    m_bakOvtEntries, m_loadedOverlays, m_newcodeAddrForDest,
                    m_patchInfo, m_externSymbols, m_destWithNcpSet, ldsRegions,
                    m_autogenDataInfoForDest, m_newcodeDataForDest, overlapLog,
                    patchIdx, installLeft >>

\* saveOverlayBins: every loaded overlay goes to the ROM tree, and to the
\* backup directory when its backupData is not empty.
SaveOverlayBins ==
    /\ pc = "saveOverlayBins"
    /\ rom' = [rom EXCEPT ![Cpu].ov =
                 [id \in OvIds |-> IF m_loadedOverlays[id].loaded
                                   THEN m_loadedOverlays[id].data
                                   ELSE rom[Cpu].ov[id]]]
    /\ bak' = [bak EXCEPT ![Cpu].ov =
                 [id \in OvIds |->
                    IF m_loadedOverlays[id].loaded /\ m_loadedOverlays[id].backupData # << >>
                    THEN File(m_loadedOverlays[id].data)
                    ELSE bak[Cpu].ov[id]]]
    /\ pc' = "saveOverlayTableBin"
    /\ UNCHANGED << err, run, input, calc, lastRun, build, rc, memVars >>

\* saveOverlayTableBin: the backup copy when there is one, then the table.
SaveOverlayTableBin ==
    /\ pc = "saveOverlayTableBin"
    /\ bak' = IF m_bakOvtEntries # << >>
              THEN [bak EXCEPT ![Cpu].ovt = OvtFile(m_bakOvtEntries)]
              ELSE bak
    /\ rom' = [rom EXCEPT ![Cpu].ovt = m_ovtEntries]
    /\ pc' = "saveArmBin"
    /\ UNCHANGED << err, run, input, calc, lastRun, build, rc, memVars >>

\* saveArmBin
SaveArmBin ==
    /\ pc = "saveArmBin"
    /\ rom' = [rom EXCEPT ![Cpu].arm = m_arm.data]
    /\ pc' = "done"
    /\ UNCHANGED << err, run, input, calc, lastRun, bak, build, rc, memVars >>

\* ------------------------------------------------------- specifications

\* The steps of makeTarget after its entry.
Stages ==
    \/ CreateDirectories
    \/ LoadArmBin
    \/ LoadOverlayTableBin
    \/ LoadPatchedOverlays
    \/ FetchNewcodeAddr
    \/ GatherInfoFromObjects
    \/ CreateLinkerScript
    \/ LinkElfFile
    \/ GatherInfoFromElf
    \/ ApplyPatch
    \/ InstallNewcode
    \/ FinishApply
    \/ SaveOverlayBins
    \/ SaveOverlayTableBin
    \/ SaveArmBin

\* One run of makeTarget on the unpatched game, on any inputs.
Start ==
    /\ pc = "idle"
    /\ \/ \E t \in Targets : \E in \in Inputs(t) : Enter(in)
       \/ \E in \in EmptyInputs : Enter(in)

Next == Start \/ Stages

Spec == Init /\ [][Next]_vars

\* The directives of the runs of SpecDirectives: set patches of the main
\* binary and of overlay 0, THUMB kinds, a plain patch, and names
\* parseSymbol rejects (an unknown kind, a token that is no hexadecimal
\* address, a third token that does not begin with "ov", one whose overlay
\* number is no number, "over" as a label, the symbol "ncp_dest").  jm and jo
\* are the indices of the jobs of the main region and of the overlay region.
SetDirectives(jm, jo) ==
    << NamedDirective(TRUE, LabelName(2, "jmp", HexName(Header.ramAddress), "", << >>),
                      8, FALSE, jm),
       NamedDirective(FALSE, LabelName(2, "hook", << 0, 2, 0, NotHex, 0, 0, 0, 0 >>, "", << >>),
                      0, FALSE, jm),
       Directive(FALSE, SetHook, Header.ramAddress, -1, 0, FALSE, jm),
       Directive(FALSE, SetCall, Header.ramAddress + 4, -1, 0, FALSE, jm),
       Directive(FALSE, SetJump, OvRamAddress, 0, 0, FALSE, jo),
       NamedDirective(TRUE, LabelName(3, "jump", HexName(OvRamAddress), "xx", << 0 >>),
                      8, FALSE, jm),
       NamedDirective(FALSE, LabelName(3, "call", HexName(OvRamAddress), "ov", << NotHex >>),
                      0, FALSE, jm),
       Directive(FALSE, TSetCall, Header.ramAddress + 8, -1, 0, FALSE, jm),
       Directive(FALSE, Over, Header.ramAddress, -1, 0, FALSE, jm),
       NamedDirective(FALSE, LabelName(1, "dest", << >>, "", << >>), 0, FALSE, jm),
       Directive(TRUE, TCall, Header.ramAddress + 8, -1, 8, TRUE, jm),
       Directive(FALSE, THook, Header.ramAddress, -1, 0, TRUE, jm),
       Directive(TRUE, Jump, Header.ramAddress + 4, -1, 8, FALSE, jm) >>

\* The inputs of a run of SpecDirectives whose jobs are those of the regions
\* jobs, in this order: at most MaxPatches of the directives above.
DirectiveInputs(jobs) ==
    LET regions == IF Len(jobs) = 1 THEN << MainRegion >>
                   ELSE << MainRegion, Region(0, "Append", NoRegionAddress, 64) >>
        jobOf(r) == IF \E j \in 1..Len(jobs) : jobs[j] = r
                    THEN CHOOSE j \in 1..Len(jobs) : jobs[j] = r
                    ELSE 0
        ds == SetDirectives(jobOf(1), jobOf(2))
        ov == IF Len(jobs) = 1 THEN 0 ELSE 4
    IN  { RunInput([arm9 |-> TRUE, regions |-> regions], jobs, Pick(ds, picked), l) :
            picked \in { x \in SUBSET { i \in 1..Len(ds) : ds[i].job # 0 } :
                           Cardinality(x) <= MaxPatches },
            l \in { LinkOutcome(FALSE, 4, 0, ov, 0, 0), LinkOutcome(FALSE, 4, 4, ov, ov, 2) } }

\* One run of makeTarget on the unpatched game, on the directives above,
\* with the job of the main region before or after that of the overlay.
StartDirectives ==
    /\ pc = "idle"
    /\ \E jobs \in { << 1 >>, << 1, 2 >>, << 2, 1 >> } :
          \E in \in DirectiveInputs(jobs) : Enter(in)

NextDirectives == StartDirectives \/ Stages

SpecDirectives == Init /\ [][NextDirectives]_vars

\* The inputs of the runs of SpecRuns: patches of the main binary, of
\* overlay 0 in Append and in Replace mode, and new bss only for an overlay.
RunScenarios ==
    LET main9 == [arm9 |-> TRUE, regions |-> << MainRegion >>]
        ov9(mode, length) ==
            [arm9 |-> TRUE,
             regions |-> << MainRegion, Region(0, mode, NoRegionAddress, length) >>]
        ov7 == [arm9 |-> FALSE,
                regions |-> << MainRegion, Region(0, "Append", NoRegionAddress, 64) >>]
        mainHook == << Directive(TRUE, Hook, Header.ramAddress, -1, 24, FALSE, 1) >>
        ovHook == << Directive(TRUE, Hook, OvRamAddress + 4, 0, 24, FALSE, 2) >>
        mainToOv == << Directive(TRUE, Jump, OvRamAddress, 0, 8, FALSE, 1) >>
        mainToOv1 == << Directive(TRUE, Jump, OvRamAddress, 1, 8, FALSE, 1) >>
    IN  { RunInput(main9, << 1 >>, mainHook, LinkOutcome(FALSE, 4, 4, 0, 0, 0)),
          RunInput(main9, << 1 >>, mainToOv, LinkOutcome(FALSE, 4, 0, 0, 0, 0)),
          RunInput(main9, << 1 >>, mainToOv1, LinkOutcome(FALSE, 4, 0, 0, 0, 0)),
          RunInput(ov9("Append", 64), << 1, 2 >>, ovHook, LinkOutcome(FALSE, 0, 0, 4, 0, 0)),
          RunInput(ov9("Replace", 24), << 1, 2 >>, << >>, LinkOutcome(FALSE, 0, 0, 4, 0, 0)),
          RunInput(ov9("Append", 12), << 1, 2 >>, << >>, LinkOutcome(FALSE, 0, 0, 0, 4, 0)),
          RunInput(ov7, << 1, 2 >>, ovHook, LinkOutcome(FALSE, 0, 4, 4, 4, 0)),
          RunInput(main9, << >>, << >>, LinkOutcome(FALSE, 0, 0, 0, 0, 0)) }

\* Runs of makeTarget one after the other on the same ROM tree, each on a new
\* PatchMaker, on the inputs of RunScenarios.
StartRun ==
    /\ pc \in {"idle", "done", "failed"}
    /\ run < MaxRuns
    /\ \E in \in RunScenarios : Enter(in)

NextRuns == StartRun \/ Stages

SpecRuns == Init /\ [][NextRuns]_vars

\* The arguments of the calls of the opcode makers that are checked on their
\* own: opcodes that are branches (B, BL, BEQ, BLX with either H bit, forward
\* and backward) and opcodes that are none, and addresses around the base of
\* the main binary: word-aligned and not, next to each other, and at the
\* ends of the ranges of the ARM and of the THUMB branch.
CalcInputs ==
    LET base == Header.ramAddress
        opCodes == { MkWord(armOpcodeB, 0), MkWord(armOpcodeB, Pow2_24 - 3),
                     MkWord(armOpcodeBL, 2^23 - 1), MkWord(armOpcodeBL, 2^23),
                     MkWord(10, 5), MkWord(armOpCodeBLX, 1), MkWord(251, Pow2_24 - 1),
                     MkWord(225, 10485760), MkWord(229, 2093060), MkWord(236, 7),
                     MkWord(232, 1) }
        addresses == { 8, base - 2^22 + 4, base, base + 2, base + 4, base + 6,
                       base + 2^20, base + 2^22, base + 2^22 + 2, base + 2^25 + 4 }
    IN  { [fn |-> "", opCode |-> o, fromAddr |-> f, toAddr |-> t, result |-> << >>] :
            o \in opCodes, f \in addresses, t \in addresses }

\* One call of an opcode maker on arguments of CalcInputs.
InitOpCodes == InitMaker /\ calc \in CalcInputs

\* makeJumpOpCode(armOpcodeB, fromAddr, toAddr)
CallMakeJumpOpCode ==
    /\ calc.fn = ""
    /\ calc' = [calc EXCEPT !.fn = "makeJumpOpCode",
                            !.result = makeJumpOpCode(MkWord(armOpcodeB, 0),
                                                      calc.fromAddr, calc.toAddr)]
    /\ UNCHANGED << pc, err, run, input, lastRun, diskVars, memVars >>

\* makeThumbJumpOpCode(thumbOpCodeBL1, fromAddr, toAddr)
CallMakeThumbJumpOpCode ==
    /\ calc.fn = ""
    /\ calc' = [calc EXCEPT !.fn = "makeThumbJumpOpCode",
                            !.result = makeThumbJumpOpCode(thumbOpCodeBL1,
                                                           calc.fromAddr, calc.toAddr)]
    /\ UNCHANGED << pc, err, run, input, lastRun, diskVars, memVars >>

\* fixupOpCode(opCode, ogAddr, newAddr): ogAddr is fromAddr, newAddr is toAddr.
CallFixupOpCode ==
    /\ calc.fn = ""
    /\ calc' = [calc EXCEPT !.fn = "fixupOpCode",
                            !.result = fixupOpCode(calc.opCode, calc.fromAddr, calc.toAddr)]
    /\ UNCHANGED << pc, err, run, input, lastRun, diskVars, memVars >>

NextOpCodes == CallMakeJumpOpCode \/ CallMakeThumbJumpOpCode \/ CallFixupOpCode

SpecOpCodes == InitOpCodes /\ [][NextOpCodes]_vars

\* ------------------------------------------------------------- properties

\* The positions of makeTarget after gatherInfoFromElf has returned without
\* error, and those after applyPatchesToRom has.
AfterGather == {"applyPatches", "saveOverlayBins", "saveOverlayTableBin", "saveArmBin", "done"}
AfterApply == {"saveOverlayBins", "saveOverlayTableBin", "saveArmBin", "done"}

\* The addresses a patch record covers at its destination: sectionSize bytes
\* for an Over patch, four otherwise.
PatchRange(info) ==
    { info.destAddress + k :
        k \in 0..((IF info.patchType = Over THEN info.sectionSize ELSE 4) - 1) }

\* The pairs of patch records of one destination whose ranges meet.
MeetingPairs ==
    { pair \in (1..Len(m_patchInfo)) \X (1..Len(m_patchInfo)) :
        /\ pair[1] < pair[2]
        /\ m_patchInfo[pair[1]].destAddressOv = m_patchInfo[pair[2]].destAddressOv
        /\ PatchRange(m_patchInfo[pair[1]]) \cap PatchRange(m_patchInfo[pair[2]]) # {} }

\* Whether no binary in memory differs from what was loaded for it: the ARM
\* binary is the original one and no overlay has been written to.
NothingPatchedInMemory ==
    /\ m_arm.data = OrigArmData
    /\ \A id \in OvIds : m_loadedOverlays[id].loaded =>
          /\ ~m_loadedOverlays[id].dirty
          /\ m_loadedOverlays[id].data = OrigOvData(id)

\* C1: once gatherInfoFromElf has returned without error, any two patch
\* records of the same destination cover disjoint address ranges; when some
\* pair overlaps, every overlapping pair is reported, the run fails with
\* "Overlapping patches were detected.", no patch is applied and neither the
\* binaries in memory nor the ROM tree have changed.
C1_OverlapCheck ==
    /\ pc \in AfterGather => MeetingPairs = {}
    /\ (pc = "failed" /\ err = "Overlapping patches were detected.") =>
          /\ overlapLog = MeetingPairs
          /\ overlapLog # {}
          /\ patchIdx = 1
          /\ NothingPatchedInMemory
          /\ rom = [c \in Cpus |-> OrigRom]
    /\ (pc = "failed" /\ err # "Overlapping patches were detected."
            /\ m_elf.loaded /\ m_patchInfo # << >> /\ overlapLog = {}) =>
          MeetingPairs = {}

\* C1 (reached): a run fails on three patches of which two pairs overlap and
\* one pair does not.
C1_TwoPairsReported ==
    /\ pc = "failed"
    /\ err = "Overlapping patches were detected."
    /\ Cardinality(overlapLog) = 2
    /\ Len(m_patchInfo) = 3

\* applyPatchesToRom has been entered and has changed nothing yet.
BeforeFirstPatch ==
    /\ pc = "applyPatches"
    /\ patchIdx = 1
    /\ installLeft = { d \in Dests : m_newcodeDataForDest[d].present }

\* C2: in any sequence of runs, a backup file holds the unpatched bytes of
\* its binary, and the binaries in memory when the first patch of a run is
\* about to be applied are the unpatched ones.
C2_BackupsPristine ==
    /\ \A c \in Cpus :
          /\ bak[c].arm.exists => bak[c].arm.bytes = OrigArmData
          /\ \A id \in OvIds : bak[c].ov[id].exists => bak[c].ov[id].bytes = OrigOvData(id)
    /\ BeforeFirstPatch =>
          /\ m_arm.data = OrigArmData
          /\ \A id \in OvIds :
                m_loadedOverlays[id].loaded => m_loadedOverlays[id].data = OrigOvData(id)

\* C2 (reached): a second run is about to apply its first patch to an overlay
\* it has loaded from the backup, and the bytes are not the unpatched ones.
C2_PatchedBytesLoaded ==
    /\ run = 2
    /\ BeforeFirstPatch
    /\ m_loadedOverlays[0].loaded
    /\ m_loadedOverlays[0].backupData = << >>
    /\ m_loadedOverlays[0].data # OrigOvData(0)

\* C3: a run that follows a completed run on the same inputs leaves the ROM
\* tree as that run left it.
C3_RerunIdentical ==
    (pc = "done" /\ lastRun.pc = "done" /\ lastRun.input = input) => rom = lastRun.rom

\* C3 (reached): the second of two completed runs on the same inputs, which
\* append new code to overlay 0, leaves the overlay longer than the first did.
C3_RerunAppendsAgain ==
    /\ pc = "done"
    /\ lastRun.pc = "done"
    /\ lastRun.input = input
    /\ input.target.regions = << MainRegion, Region(0, "Append", NoRegionAddress, 64) >>
    /\ Len(rom[Cpu].ov[0]) > Len(lastRun.rom[Cpu].ov[0])

\* C4: the files of the ROM tree are as they were when the run was entered
\* until applyPatchesToRom has returned and the save steps have begun; a run
\* that has failed has written none of them.
C4_RomWrittenOnlyBySaveSteps ==
    /\ (run > 0 /\ pc \notin {"saveOverlayTableBin", "saveArmBin", "done"}) =>
          rom = lastRun.rom
    /\ (pc \in {"saveOverlayTableBin", "saveArmBin", "done"}) =>
          (patchIdx > Len(m_patchInfo) /\ installLeft = {} /\ err = "")

\* C4 (reached): a run has failed on an overlay that is too large after it
\* had patched the ARM binary in memory, and the ROM tree is untouched.
C4_FailedAfterPatchingInMemory ==
    /\ pc = "failed"
    /\ err = ExceedsMaxLength
    /\ m_arm.data # OrigArmData
    /\ rom = [c \in Cpus |-> OrigRom]

\* The destination of the region of a patch record's job.
JobDestination(info) == input.target.regions[input.jobs[info.job]].destination

\* The bridge bytes the patches of the jobs of destination d call for: 20 per
\* Hook patch, 8 per Jump patch from ARM code to a THUMB function.
BridgeBytesOf(d) ==
    20 * Cardinality({ i \in 1..Len(m_patchInfo) :
                         m_patchInfo[i].patchType = Hook /\ JobDestination(m_patchInfo[i]) = d })
    + 8 * Cardinality({ i \in 1..Len(m_patchInfo) :
                          /\ m_patchInfo[i].patchType = Jump
                          /\ ~m_patchInfo[i].destThumb
                          /\ m_patchInfo[i].srcThumb
                          /\ JobDestination(m_patchInfo[i]) = d })

\* The autogenDataSize the linker script reserves for destination d.
ReservedFor(d) ==
    IF \E k \in 1..Len(ldsRegions) : ldsRegions[k].dest = d
    THEN LET k == CHOOSE n \in 1..Len(ldsRegions) : ldsRegions[n].dest = d
         IN  ldsRegions[k].autogenDataSize
    ELSE 0

\* A step of the patch loop that applies patch record p without error.
PatchApplied(p) ==
    /\ pc = "applyPatches"
    /\ patchIdx <= Len(m_patchInfo)
    /\ p = m_patchInfo[patchIdx]
    /\ pc' = "applyPatches"
    /\ patchIdx' = patchIdx + 1

\* C5: the linker script reserves for each destination 20 bytes per Hook
\* patch and 8 bytes per ARM-to-THUMB Jump patch of its jobs; applying a Hook
\* appends 20 bytes and applying an ARM-to-THUMB Jump 8 bytes to the autogen
\* buffer of the patch's source destination and nothing to any other; and
\* after applyPatchesToRom no buffer holds more bytes than were reserved.
C5_AutogenWithinReserved ==
    [][ /\ (pc' \in {"linkElfFile"} \cup AfterGather) =>
              \A d \in Dests : ReservedFor(d)' = BridgeBytesOf(d)'
        /\ \A p \in { m_patchInfo[i] : i \in 1..Len(m_patchInfo) } :
              PatchApplied(p) =>
                 \A d \in Dests :
                    Len(m_autogenDataInfoForDest'[d].data)
                    = Len(m_autogenDataInfoForDest[d].data)
                      + (IF d # p.srcAddressOv THEN 0
                         ELSE IF p.patchType = Hook THEN 20
                         ELSE IF p.patchType = Jump /\ ~p.destThumb /\ p.srcThumb THEN 8
                         ELSE 0)
        /\ (pc' \in AfterApply) =>
              \A d \in Dests :
                 Len(m_autogenDataInfoForDest'[d].data) <= ReservedFor(d)' ]_vars

\* C5 (reached): a run has applied a Hook and an ARM-to-THUMB Jump of the
\* main binary's job and has filled the 28 bytes reserved for them.
C5_HookAndJumpBridged ==
    /\ pc = "done"
    /\ ReservedFor(-1) = 28
    /\ Len(m_autogenDataInfoForDest[-1].data) = 28

\* The region the target declares for overlay d, if any.
HasRegion(d) == \E i \in 1..Len(input.target.regions) : input.target.regions[i].destination = d
RegionOf(d) ==
    input.target.regions[CHOOSE i \in 1..Len(input.target.regions) :
                            input.target.regions[i].destination = d]

\* C6: after applyPatchesToRom has succeeded, the table entry of every
\* overlay that received new code in Append or Replace mode has
\* ramSize + bssSize <= region.length, and a run that fails with the
\* overlay-size error has not completed.
C6_OverlayWithinRegion ==
    /\ pc \in AfterApply =>
          \A d \in OvIds :
             (m_newcodeDataForDest[d].present /\ HasRegion(d)
                 /\ RegionOf(d).mode \in {"Append", "Replace"}) =>
                m_ovtEntries[d].ramSize + m_ovtEntries[d].bssSize <= RegionOf(d).length
    /\ err = ExceedsMaxLength => pc = "failed"

\* C6 (reached): a run on an overlay that an earlier run replaced has
\* completed its installation with an entry larger than the region.
C6_OverlayLargerThanRegion ==
    /\ run = 2
    /\ pc = "done"
    /\ HasRegion(0)
    /\ RegionOf(0).mode = "Append"
    /\ m_newcodeDataForDest[0].present
    /\ m_ovtEntries[0].ramSize + m_ovtEntries[0].bssSize > RegionOf(0).length

\* Whether the autoload list of an ARM binary spans twelve bytes per entry.
ListSpansEntries(arm) ==
    ModuleParams(arm.data).autoloadListEnd - ModuleParams(arm.data).autoloadListStart
    = 12 * Len(arm.autoloadList)

Installed(d) ==
    /\ pc = "applyPatches"
    /\ patchIdx > Len(m_patchInfo)
    /\ d \in installLeft
    /\ d \notin installLeft'

\* C8: installing new code of binSize N and bss size B into the main ARM
\* binary grows it by N + 12 bytes, moves autoloadListStart by N and
\* autoloadListEnd by N + 12 and puts {new-code address, N, B, offset of the
\* old autoload start} before the other entries of the list, unless
\* N + B = 0, when the binary, its module params and its list stay as they
\* are.
C8_MainInstall ==
    [][ Installed(-1) =>
          LET N == m_newcodeDataForDest[-1].binSize
              B == m_newcodeDataForDest[-1].bssSize
              before == ModuleParams(m_arm.data)
              after == ModuleParams(m_arm'.data)
          IN  IF N + B > 0
              THEN /\ Len(m_arm'.data) = Len(m_arm.data) + N + 12
                   /\ after.autoloadListStart = before.autoloadListStart + N
                   /\ after.autoloadListEnd = before.autoloadListEnd + N + 12
                   /\ m_arm'.autoloadList =
                        << [address |-> m_newcodeAddrForDest[-1], size |-> N, bssSize |-> B,
                            dataOff |-> before.autoloadStart - Header.ramAddress] >>
                        \o m_arm.autoloadList
              ELSE m_arm' = m_arm ]_vars

\* C8 (reached): new code with code and bss has been installed into the main
\* ARM binary.
C8_CodeAndBssInstalled ==
    /\ pc = "done"
    /\ Len(m_arm.autoloadList) = 2
    /\ m_arm.autoloadList[1].size > 0
    /\ m_arm.autoloadList[1].bssSize > 0
    /\ Len(m_arm.data) = Len(OrigArmData) + m_arm.autoloadList[1].size + 12

\* The bytes of the binary of destination ov before a step of
\* applyPatchesToRom (an overlay that is not loaded yet is loaded by the
\* step), and after it.
BinaryBefore(ov) ==
    IF ov = -1 THEN m_arm.data ELSE getOverlay(ApplyState, ov, Cpu).loaded[ov].data
BinaryAfter(ov) ==
    IF ov = -1 THEN m_arm'.data ELSE m_loadedOverlays'[ov].data

\* C9: appending new code of binSize N and bss size B' to an overlay of L
\* bytes whose entry has bssSize B gives, when N > 0, a buffer of L + B + N
\* bytes that keeps its first L bytes, holds B zero bytes after them and
\* then the new code (its bridges last), with ramSize = L + B + N and
\* bssSize = B'; when N = 0 the buffer and ramSize stay and bssSize is
\* B + B'.  Either way the entry's compressed size and flag are 0.
C9_OverlayAppend ==
    [][ \A d \in OvIds :
          (Installed(d) /\ pc' = "applyPatches" /\ RegionOf(d).mode = "Append") =>
             LET L == Len(BinaryBefore(d))
                 B == m_ovtEntries[d].bssSize
                 N == m_newcodeDataForDest[d].binSize
                 bridges == m_autogenDataInfoForDest[d].data
                 after == BinaryAfter(d)
             IN  /\ IF N > 0
                    THEN /\ Len(after) = L + B + N
                         /\ \A i \in 1..L : after[i] = BinaryBefore(d)[i]
                         /\ \A i \in (L + 1)..(L + B) : after[i] = 0
                         /\ \A i \in 1..(N - Len(bridges)) :
                               after[L + B + i] = m_newcodeDataForDest[d].binData[i]
                         /\ \A i \in 1..Len(bridges) :
                               after[L + B + N - Len(bridges) + i] = bridges[i]
                         /\ m_ovtEntries'[d].ramSize = L + B + N
                         /\ m_ovtEntries'[d].bssSize = m_newcodeDataForDest[d].bssSize
                    ELSE /\ after = BinaryBefore(d)
                         /\ m_ovtEntries'[d].ramSize = m_ovtEntries[d].ramSize
                         /\ m_ovtEntries'[d].bssSize = B + m_newcodeDataForDest[d].bssSize
                 /\ m_ovtEntries'[d].compressed = 0
                 /\ m_ovtEntries'[d].flag = 0 ]_vars

\* C9 (reached): new code with a hook bridge has been appended to overlay 0
\* after its eight bytes and the four bytes of its bss.
C9_CodeAppendedAfterBss ==
    /\ pc = "done"
    /\ HasRegion(0)
    /\ RegionOf(0).mode = "Append"
    /\ m_newcodeDataForDest[0].binSize > 0
    /\ m_autogenDataInfoForDest[0].data # << >>
    /\ m_ovtEntries[0].ramSize = 8 + 4 + m_newcodeDataForDest[0].binSize
    /\ Len(m_loadedOverlays[0].data) = m_ovtEntries[0].ramSize

\* The address an ARM branch instruction at address at transfers to: at + 8
\* plus four times its signed 24-bit immediate.
BranchTarget(w, at) ==
    LET imm == w[1] + (2^8) * w[2] + (2^16) * w[3]
    IN  at + 8 + 4 * (IF imm >= 2^23 THEN imm - 2^24 ELSE imm)

\* Whether a word is an ARM B or BL instruction (bits 27..25 are 101).
IsBranch(w) == (w[4] \div 2) % 8 = 5

\* C10: applying a Hook patch from ARM code at D to an ARM function at S
\* appends to the autogen buffer of the patch's source destination, at its
\* cursor, the words PUSH {R0-R3,R12,LR}, BL S, POP {R0-R3,R12,LR}, the word
\* W that was at D (as a branch to the same target when W is a branch) and
\* B D+4, and puts a B to the bridge at D.
C10_HookBridge ==
    [][ \A p \in { m_patchInfo[i] : i \in 1..Len(m_patchInfo) } :
          (PatchApplied(p) /\ p.patchType = Hook /\ ~p.destThumb /\ ~p.srcThumb) =>
             LET info == m_autogenDataInfoForDest[p.srcAddressOv]
                 bridge == info.curAddress
                 D == p.destAddress
                 base == IF p.destAddressOv = -1 THEN Header.ramAddress
                         ELSE m_ovtEntries[p.destAddressOv].ramAddress
                 W == SubBytes(BinaryBefore(p.destAddressOv), D - base, 4)
                 data == m_autogenDataInfoForDest'[p.srcAddressOv].data
                 word(k) == SubBytes(data, Len(info.data) + 4 * k, 4)
                 atD == SubBytes(BinaryAfter(p.destAddressOv), D - base, 4)
             IN  /\ Len(data) = Len(info.data) + 20
                 /\ SubBytes(data, 0, Len(info.data)) = info.data
                 /\ m_autogenDataInfoForDest'[p.srcAddressOv].curAddress = bridge + 20
                 /\ word(0) = << 15, 80, 45, 233 >>
                 /\ word(1)[4] = 235 /\ BranchTarget(word(1), bridge + 4) = p.srcAddress
                 /\ word(2) = << 15, 80, 189, 232 >>
                 /\ IF IsBranch(W)
                    THEN /\ word(3)[4] = W[4]
                         /\ BranchTarget(word(3), bridge + 12) = BranchTarget(W, D)
                    ELSE word(3) = W
                 /\ word(4)[4] = 234 /\ BranchTarget(word(4), bridge + 16) = D + 4
                 /\ atD[4] = 234 /\ BranchTarget(atD, D) = bridge ]_vars

\* C10 (reached): the BL at the second word of the main binary has been
\* hooked, and its bridge holds the BL re-encoded for its new address.
C10_BranchHooked ==
    /\ pc = "done"
    /\ Len(m_patchInfo) = 1
    /\ m_patchInfo[1].patchType = Hook
    /\ m_patchInfo[1].destAddress = Header.ramAddress + 4
    /\ Len(m_autogenDataInfoForDest[-1].data) = 20
    /\ m_autogenDataInfoForDest[-1].data[16] = 235
    /\ SubBytes(m_autogenDataInfoForDest[-1].data, 12, 4) # MkWord(235, Pow2_24 - 3)
    /\ SubBytes(m_arm.data, 4, 4)[4] = 234

\* The little-endian bytes of an address below 2^31.
AddressBytes(n) ==
    << n % 256, (n \div 256) % 256, (n \div 65536) % 256, n \div 16777216 >>

\* The RAM address of the binary of a destination that is loaded.
BinaryBase(ov) ==
    IF ov = -1 THEN Header.ramAddress ELSE m_ovtEntries[ov].ramAddress

\* C11: applying a Jump patch from ARM code at D to a THUMB function at S
\* appends exactly eight bytes to the autogen buffer of the patch's source
\* destination, the word 0xE51FF004 (LDR PC,[PC,#-4]) and the word S | 1,
\* and puts at D an ARM B whose target is the address the autogen cursor
\* had before the patch.
C11_Arm2ThumbJumpBridge ==
    [][ \A p \in { m_patchInfo[i] : i \in 1..Len(m_patchInfo) } :
          (PatchApplied(p) /\ p.patchType = Jump /\ ~p.destThumb /\ p.srcThumb) =>
             LET info == m_autogenDataInfoForDest[p.srcAddressOv]
                 after == m_autogenDataInfoForDest'[p.srcAddressOv]
                 D == p.destAddress
                 S1 == IF p.srcAddress % 2 = 1 THEN p.srcAddress ELSE p.srcAddress + 1
                 atD == SubBytes(BinaryAfter(p.destAddressOv), D - BinaryBase(p.destAddressOv), 4)
             IN  /\ Len(after.data) = Len(info.data) + 8
                 /\ SubBytes(after.data, 0, Len(info.data)) = info.data
                 /\ SubBytes(after.data, Len(info.data), 4) = << 4, 240, 31, 229 >>
                 /\ SubBytes(after.data, Len(info.data) + 4, 4) = AddressBytes(S1)
                 /\ after.curAddress = info.curAddress + 8
                 /\ atD[4] = 234 /\ BranchTarget(atD, D) = info.curAddress
                 /\ \A d \in Dests \ {p.srcAddressOv} :
                      m_autogenDataInfoForDest'[d] = m_autogenDataInfoForDest[d] ]_vars

\* C11 (reached): a Jump from ARM code to a THUMB function at an even
\* address has been applied after another bridge, and the run is complete.
C11_JumpBridgedAfterHook ==
    /\ pc = "done"
    /\ \E i \in 1..Len(m_patchInfo) :
         /\ m_patchInfo[i].patchType = Jump
         /\ ~m_patchInfo[i].destThumb /\ m_patchInfo[i].srcThumb
         /\ m_patchInfo[i].srcAddress % 2 = 0
         /\ \E j \in 1..(i - 1) : m_patchInfo[j].patchType = Hook
         /\ Len(m_autogenDataInfoForDest[m_patchInfo[i].srcAddressOv].data) = 28

\* The halfword at byte offset off of a byte sequence.
HalfAt(bytes, off) == bytes[off + 1] + 256 * bytes[off + 2]

\* The target of the THUMB BL or BLX pair (first halfword h0, second h1) at
\* address at: at + 4 + 2 * the signed 22-bit offset, word-aligned for BLX.
ThumbBranchTarget(h0, h1, at) ==
    LET off == 2048 * (h0 % 2048) + (h1 % 2048)
        target == at + 4 + 2 * (IF off >= 2^21 THEN off - 2^22 ELSE off)
    IN  IF h1 \div 2048 = 29 THEN target - (target % 4) ELSE target

\* C12: applying a Jump patch to THUMB code at D puts at D the halfword
\* PUSH {LR} (0xB500), then the two halfwords of a THUMB branch with link to
\* the patch body at S (BLX when the body is ARM, BL when it is THUMB), then
\* POP {PC} (0xBD00).
C12_ThumbJumpSequence ==
    [][ \A p \in { m_patchInfo[i] : i \in 1..Len(m_patchInfo) } :
          (PatchApplied(p) /\ p.patchType = Jump /\ p.destThumb) =>
             LET D == p.destAddress
                 off == D - BinaryBase(p.destAddressOv)
                 bin == BinaryAfter(p.destAddressOv)
             IN  /\ off + 8 <= Len(bin)
                 /\ HalfAt(bin, off) = 46336
                 /\ HalfAt(bin, off + 2) \div 2048 = 30
                 /\ HalfAt(bin, off + 4) \div 2048 = (IF p.srcThumb THEN 31 ELSE 29)
                 /\ ThumbBranchTarget(HalfAt(bin, off + 2), HalfAt(bin, off + 4), D + 2)
                      = p.srcAddress - (p.srcAddress % 2)
                 /\ HalfAt(bin, off + 6) = 48384 ]_vars

\* C12 (reached): a Jump from THUMB code has been applied, nothing is
\* installed yet; the six bytes at D are PUSH {LR}, the first halfword of
\* the pair and POP {PC}, and the bytes after them are those of the game.
C12_ThumbJumpOfThreeHalfwords ==
    /\ pc = "applyPatches"
    /\ patchIdx = 2
    /\ installLeft = {-1}
    /\ Len(m_patchInfo) = 1
    /\ m_patchInfo[1].patchType = Jump /\ m_patchInfo[1].destThumb
    /\ m_patchInfo[1].destAddress = Header.ramAddress + 8
    /\ HalfAt(m_arm.data, 8) = 46336
    /\ HalfAt(m_arm.data, 10) \div 2048 = 30
    /\ HalfAt(m_arm.data, 12) = 48384
    /\ SubBytes(m_arm.data, 14, 2) = SubBytes(OrigArmData, 14, 2)

\* C13: on an ARM9 target, applying a Call patch from ARM code at D to a
\* THUMB function at S puts at D an ARM BLX (bits 31..25 are 1111101) whose
\* target, D + 8 + 4 * the signed imm24 + 2 * H (H is bit 24), is S with bit
\* 0 cleared, also when S mod 4 >= 2.
C13_BlxHalfwordBit ==
    [][ \A p \in { m_patchInfo[i] : i \in 1..Len(m_patchInfo) } :
          (PatchApplied(p) /\ p.patchType = Call /\ ~p.destThumb /\ p.srcThumb
             /\ input.target.arm9) =>
             LET D == p.destAddress
                 atD == SubBytes(BinaryAfter(p.destAddressOv), D - BinaryBase(p.destAddressOv), 4)
             IN  /\ atD[4] \div 2 = 125
                 /\ BranchTarget(atD, D) + 2 * (atD[4] % 2)
                      = p.srcAddress - (p.srcAddress % 2) ]_vars

\* C13 (reached): a Call from ARM code to a THUMB function in the second
\* halfword of a word has been applied on an ARM9 target; the word at D has
\* the top byte 0xFA, H clear, and bit 23 of its imm24 set.
C13_CallToSecondHalfword ==
    /\ pc = "applyPatches"
    /\ patchIdx = 2
    /\ input.target.arm9
    /\ m_patchInfo[1].patchType = Call
    /\ ~m_patchInfo[1].destThumb /\ m_patchInfo[1].srcThumb
    /\ m_patchInfo[1].srcAddress % 4 = 2
    /\ m_patchInfo[1].srcAddress > m_patchInfo[1].destAddress
    /\ m_patchInfo[1].destAddressOv = -1
    /\ LET atD == SubBytes(m_arm.data, m_patchInfo[1].destAddress - Header.ramAddress, 4)
       IN  atD[4] = 250 /\ atD[3] >= 128

\* C14: for word-aligned addresses F and T with T in the range of an ARM
\* branch at F (T - F - 8 from -2^25 to 2^25 - 4), makeJumpOpCode(0xEA000000,
\* F, T) has the top byte 0xEA, and F + 8 + 4 * its signed imm24 is T,
\* backward as well as forward.
C14_ArmBranchRoundTrip ==
    (/\ calc.fn = "makeJumpOpCode"
     /\ calc.fromAddr % 4 = 0 /\ calc.toAddr % 4 = 0
     /\ calc.toAddr - calc.fromAddr - 8 >= -(2^25)
     /\ calc.toAddr - calc.fromAddr - 8 <= 2^25 - 4) =>
        /\ calc.result[4] = 234
        /\ BranchTarget(calc.result, calc.fromAddr) = calc.toAddr

\* C14 (reached): the farthest backward branch has been encoded.
C14_FarthestBackwardBranch ==
    /\ calc.fn = "makeJumpOpCode"
    /\ calc.toAddr - calc.fromAddr - 8 = -(2^25)
    /\ calc.result = << 0, 0, 128, 234 >>

\* C15: for addresses F and T with T - F even and T in the range of a THUMB
\* BL at F (T - F - 4 from -2^22 to 2^22 - 2), the low halfword of
\* makeThumbJumpOpCode(0xF800, F, T) is 0xF000 | bits 21..11 of the offset,
\* its high halfword 0xF800 | bits 10..0, and F + 4 + 2 * the signed 22-bit
\* offset of the pair is T, backward as well as forward.
C15_ThumbBranchRoundTrip ==
    (/\ calc.fn = "makeThumbJumpOpCode"
     /\ (calc.toAddr - calc.fromAddr) % 2 = 0
     /\ calc.toAddr - calc.fromAddr - 4 >= -(2^22)
     /\ calc.toAddr - calc.fromAddr - 4 <= 2^22 - 2) =>
        LET offset == ((calc.toAddr - calc.fromAddr - 4) \div 2) % (2^22)
            low == HalfAt(calc.result, 0)
            high == HalfAt(calc.result, 2)
        IN  /\ low = 61440 + (offset \div 2048)
            /\ high = 63488 + (offset % 2048)
            /\ ThumbBranchTarget(low, high, calc.fromAddr) = calc.toAddr

\* C15 (reached): the farthest backward THUMB branch has been encoded.
C15_FarthestBackwardThumbBranch ==
    /\ calc.fn = "makeThumbJumpOpCode"
    /\ calc.toAddr - calc.fromAddr - 4 = -(2^22)
    /\ calc.result = << 0, 244, 0, 248 >>

\* The target of the branch w at address at within the 26-bit window of an
\* ARM branch.
WindowTarget(w, at) == (at + 8 + 4 * (w[1] + (2^8) * w[2] + (2^16) * w[3])) % (2^26)

\* C16 as claimed: for every opcode and all addresses og and new, the result
\* of fixupOpCode(opc, og, new) for a branch (bits 27..25 are 101) keeps the
\* top byte and, at new, has the target opc has at og within the 26-bit
\* window; for any other opcode it is opc.
C16_FixupAnyAddresses ==
    calc.fn = "fixupOpCode" =>
        IF IsBranch(calc.opCode)
        THEN /\ calc.result[4] = calc.opCode[4]
             /\ WindowTarget(calc.result, calc.toAddr) = WindowTarget(calc.opCode, calc.fromAddr)
        ELSE calc.result = calc.opCode

\* C16: the same for addresses og and new that differ by a multiple of four,
\* as the addresses of two ARM instructions do; and fixupOpCode(opc, A, A) is
\* opc for every address A.
C16_FixupAlignedAddresses ==
    calc.fn = "fixupOpCode" =>
        /\ IsBranch(calc.opCode) /\ (calc.toAddr - calc.fromAddr) % 4 = 0 =>
             /\ calc.result[4] = calc.opCode[4]
             /\ WindowTarget(calc.result, calc.toAddr) = WindowTarget(calc.opCode, calc.fromAddr)
        /\ ~IsBranch(calc.opCode) => calc.result = calc.opCode
        /\ calc.toAddr = calc.fromAddr => calc.result = calc.opCode

\* C16 (reached): a backward BL has been moved to a lower address, and its
\* imm24 has changed.
C16_BranchMoved ==
    /\ calc.fn = "fixupOpCode"
    /\ calc.opCode = << 0, 0, 128, 235 >>
    /\ calc.toAddr = calc.fromAddr - 4
    /\ calc.result = << 1, 0, 128, 235 >>


\* The word the linker stored for the pointer a set patch's symbol names.
NcpSetWordOf(symbol) ==
    LET k == CHOOSE k \in 1..Len(m_elf.ncpSet) :
               \E n \in 1..Len(m_elf.ncpSet[k].symbols) : m_elf.ncpSet[k].symbols[n] = symbol
        n == CHOOSE n \in 1..Len(m_elf.ncpSet[k].symbols) : m_elf.ncpSet[k].symbols[n] = symbol
    IN  m_elf.ncpSet[k].words[n]

\* C17: once gatherInfoFromElf has run, the source address of every set
\* patch is the word stored at its declaring symbol in the section
\* ".ncp_set[_ov<N>]" it lies in, however many such sections the ELF has, and
\* the source address of every other patch that is no Over patch is an
\* address in the new code of its job's destination.
C17_SetPatchSourceIsItsPointer ==
    pc = "applyPatches" =>
        \A i \in 1..Len(m_patchInfo) :
            LET p == m_patchInfo[i]
                origin == m_elf.dest[JobDestination(p)].origin
            IN  /\ p.isNcpSet => p.srcAddress = NcpSetWordOf(p.symbol)
                /\ (~p.isNcpSet /\ p.patchType # Over) =>
                       (p.srcAddress >= origin /\ p.srcAddress < origin + 2^16)

\* Reached: the ELF has the sections ".ncp_set_ov0" and ".ncp_set", and
\* gatherInfoFromElf has left a set patch with a source address that is not
\* its pointer.
C17_TwoNcpSetSections ==
    /\ pc = "applyPatches"
    /\ Len(m_elf.ncpSet) = 2
    /\ \E i \in 1..Len(m_patchInfo) :
          /\ m_patchInfo[i].isNcpSet
          /\ m_patchInfo[i].srcAddress # NcpSetWordOf(m_patchInfo[i].symbol)


\* The kinds with the prefix t and the kind each of them stands for.
ThumbKinds ==
    [tjump |-> Jump, tcall |-> Call, thook |-> Hook,
     tsetjump |-> Jump, tsetcall |-> Call, tsethook |-> Hook]

\* The records gatherInfoFromObjects made of the i-th directive of the objects.
RecordsOf(i) ==
    { k \in 1..Len(m_patchInfo) : m_patchInfo[k].symbol.name = input.directives[i].name }

WellFormed(d) ==
    /\ d.name.tokens >= 2
    /\ d.name.kind \in { "jump", "call", "hook", "over", "setjump", "setcall", "sethook",
                         "tjump", "tcall", "thook", "tsetjump", "tsetcall", "tsethook" }
    /\ d.name.kind = "over" => d.isSection
    /\ d.name.address # << >>
    /\ \A n \in 1..Len(d.name.address) : d.name.address[n] \in 0..15
    /\ d.name.tokens > 2 =>
          /\ d.name.ovPrefix = "ov"
          /\ d.name.ovNumber # << >>
          /\ \A n \in 1..Len(d.name.ovNumber) : d.name.ovNumber[n] \in 0..15

\* The directives of the objects in the order gatherInfoFromObjects meets
\* them: job by job, the sections of the object, then its symbols.
EncounterOrder ==
    LET of(j) == SelectSeq(input.directives, LAMBDA d : d.job = j /\ d.isSection)
                 \o SelectSeq(input.directives, LAMBDA d : d.job = j /\ ~d.isSection)
    IN  IF Len(input.jobs) = 1 THEN of(1) ELSE of(1) \o of(2)

\* C19: once gatherInfoFromObjects has run (it does not abort on a
\* malformed directive), the patch records are those of the well-formed
\* directives, one each, in encounter order, and the extern symbols those of
\* the well-formed labels: a malformed directive and the symbol "ncp_dest"
\* leave no record and no extern symbol.
C19_MalformedDirectivesDropped ==
    pc = "createLinkerScript" =>
        LET recorded == SelectSeq(EncounterOrder, WellFormed)
            labels == SelectSeq(recorded, LAMBDA d : ~d.isSection)
        IN  /\ err = ""
            /\ [k \in 1..Len(m_patchInfo) |-> m_patchInfo[k].symbol]
                 = [k \in 1..Len(recorded) |->
                      [dot |-> recorded[k].isSection, name |-> recorded[k].name]]
            /\ m_externSymbols
                 = [k \in 1..Len(labels) |-> [dot |-> FALSE, name |-> labels[k].name]]

\* Reached: the object of the first job held a malformed directive before a
\* well-formed one of the same table, the object of the second job a
\* well-formed one, and gatherInfoFromObjects has recorded the two.
C19_RecordedAfterMalformed ==
    /\ pc = "createLinkerScript"
    /\ Len(input.jobs) = 2
    /\ Len(m_patchInfo) = 2
    /\ m_patchInfo[1].job = 1 /\ m_patchInfo[2].job = 2
    /\ \E i, k \in 1..Len(input.directives) :
          /\ i < k
          /\ ~WellFormed(input.directives[i]) /\ WellFormed(input.directives[k])
          /\ input.directives[i].job = 1 /\ input.directives[k].job = 1
          /\ input.directives[i].isSection = input.directives[k].isSection


\* C20: a run of makeTarget on an empty list of source-file jobs has thrown
\* "There are no source files to link." and has done nothing else: no build
\* or backup directory, no backup, no linker script, no binary loaded, the
\* ROM tree as it was.
C20_EmptyJobListThrowsFirst ==
    (run > 0 /\ input.jobs = << >>) =>
        /\ pc = "failed"
        /\ err = "There are no source files to link."
        /\ build = [c \in Cpus |-> NoBuild]
        /\ bak = [c \in Cpus |-> NoBackup]
        /\ rom = [c \in Cpus |-> OrigRom]
        /\ m_arm = NoArm
        /\ m_ovtEntries = << >>
        /\ m_loadedOverlays = [id \in OvIds |-> NoOverlay]
        /\ m_elf = NoElf

\* Reached: makeTarget has been called on an ARM7 target with an empty list
\* of source-file jobs and has thrown.
C20_ThrownOnEmptyJobList ==
    /\ run = 1
    /\ input.jobs = << >>
    /\ ~input.target.arm9
    /\ pc = "failed"


\* Whether applyPatchesToRom refuses patch record p: a Hook with a THUMB
\* side, or a Call between ARM and THUMB on an ARM7 target.
Refused(p) ==
    \/ p.patchType = Hook /\ (p.srcThumb \/ p.destThumb)
    \/ p.patchType = Call /\ p.srcThumb # p.destThumb /\ ~input.target.arm9

\* C21: the patch loop, meeting a Hook patch with srcThumb or destThumb set
\* or, on an ARM7 target, a Call patch with srcThumb # destThumb, throws
\* leaving the bytes of the patch's destination binary and every autogen
\* record as they were; any other Call patch (srcThumb # destThumb on ARM9,
\* srcThumb = destThumb on ARM7) is applied: the loop goes on to the next
\* record, the four bytes at destAddress are new and no other byte of the
\* binary and no autogen record has changed.
C21_ThumbMixRefused ==
    [][ (pc = "applyPatches" /\ patchIdx <= Len(m_patchInfo)) =>
          LET p == m_patchInfo[patchIdx]
              D == p.destAddress - BinaryBase(p.destAddressOv)
          IN  /\ Refused(p) =>
                    /\ pc' = "failed"
                    /\ err' # ""
                    /\ BinaryAfter(p.destAddressOv) = BinaryBefore(p.destAddressOv)
                    /\ m_autogenDataInfoForDest' = m_autogenDataInfoForDest
                    /\ patchIdx' = patchIdx
              /\ (p.patchType = Call /\ ~Refused(p)) =>
                    /\ pc' = "applyPatches"
                    /\ patchIdx' = patchIdx + 1
                    /\ m_autogenDataInfoForDest' = m_autogenDataInfoForDest
                    /\ SubBytes(BinaryAfter(p.destAddressOv), D, 4)
                         # SubBytes(BinaryBefore(p.destAddressOv), D, 4)
                    /\ \A k \in 1..Len(BinaryBefore(p.destAddressOv)) :
                          (k <= D \/ k > D + 4) =>
                             BinaryAfter(p.destAddressOv)[k] = BinaryBefore(p.destAddressOv)[k] ]_vars

\* Reached: on an ARM7 target the patch loop has thrown on a Call patch to a
\* THUMB function, an ARM-to-ARM Call patch being next in the list.
C21_VeneerRefusedOnArm7 ==
    /\ pc = "failed"
    /\ ~input.target.arm9
    /\ patchIdx = 1
    /\ Len(m_patchInfo) = 2
    /\ m_patchInfo[1].patchType = Call /\ Refused(m_patchInfo[1])
    /\ m_patchInfo[2].patchType = Call /\ ~Refused(m_patchInfo[2])
    /\ m_arm.data = OrigArmData


\* C22: in any sequence of runs, a step that loads an overlay for which the
\* backup directory holds a file takes the bytes of that file as they are
\* (the load is told the file is not compressed); after every step the
\* overlay-table entry of each loaded overlay has flag 0 in memory, and an
\* overlay table that saveOverlayTableBin writes, to the ROM tree or to the
\* backup directory, has flag 0 in the entry of each loaded overlay.
C22_BackupLoadedUncompressed ==
    [][ \A id \in OvIds :
          /\ (~m_loadedOverlays[id].loaded /\ m_loadedOverlays'[id].loaded
                 /\ bak[Cpu].ov[id].exists) =>
                loadOverlayBin(ApplyState, id, Cpu).loaded[id].data = bak[Cpu].ov[id].bytes
          /\ m_loadedOverlays'[id].loaded => m_ovtEntries'[id].flag = 0
          /\ (pc = "saveOverlayTableBin" /\ m_loadedOverlays[id].loaded) =>
                /\ rom'[Cpu].ovt[id].flag = 0
                /\ bak'[Cpu].ovt # bak[Cpu].ovt => bak'[Cpu].ovt.entries[id].flag = 0 ]_vars

\* Reached: in a third run, overlay 1 has been loaded from its backup file
\* and the bytes in memory are not those of the file.
C22_BackupTakenAsCompressed ==
    /\ run = 3
    /\ pc = "fetchNewcodeAddr" \/ pc = "applyPatches"
    /\ m_loadedOverlays[1].loaded
    /\ m_loadedOverlays[1].backupData = << >>
    /\ ~m_loadedOverlays[1].dirty
    /\ bak[Cpu].ov[1].exists
    /\ m_loadedOverlays[1].data # bak[Cpu].ov[1].bytes


\* The padding that brings size up to the next multiple of align: none when
\* size is a multiple already.
AlignPad(size, align) == (align - (size % align)) % align

\* C23: installing new code of binSize N and bss size B into the main ARM
\* binary, N + B > 0, stores at arenaLo the new-code address + N + the
\* padding of N to bssAlign + B.
C23_ArenaLoAfterInstall ==
    [][ (Installed(-1) /\ m_newcodeDataForDest[-1].binSize
                            + m_newcodeDataForDest[-1].bssSize > 0) =>
          LET info == m_newcodeDataForDest[-1]
          IN  ArmRead32(m_arm', ArenaLo) =
                 U32Bytes(m_newcodeAddrForDest[-1] + info.binSize
                          + AlignPad(info.binSize, info.bssAlign) + info.bssSize) ]_vars

\* Reached: new code whose binSize is a multiple of bssAlign has been
\* installed into the main ARM binary, and the word at arenaLo is bssAlign
\* bytes above the end of its bss.
C23_ArenaLoOneAlignmentHigh ==
    /\ pc = "done"
    /\ m_newcodeDataForDest[-1].binSize > 0
    /\ m_newcodeDataForDest[-1].binSize % m_newcodeDataForDest[-1].bssAlign = 0
    /\ ArmRead32(m_arm, ArenaLo) =
          U32Bytes(m_newcodeAddrForDest[-1] + m_newcodeDataForDest[-1].binSize
                   + m_newcodeDataForDest[-1].bssAlign + m_newcodeDataForDest[-1].bssSize)


\* C24: installing new code of binSize N > 0 into the main ARM binary, with
\* a the file offset of the autoload start and l that of the autoload list
\* before the installation, leaves at [a, a+N) the new code, the bridges
\* being its last bytes, at [a+N, l+N) the bytes that were at [a, l), and
\* from l+N on the autoload entries as triples (address, size, bssSize),
\* the new entry first.
C24_MainInstallLayout ==
    [][ (Installed(-1) /\ m_newcodeDataForDest[-1].binSize > 0) =>
          LET info == m_newcodeDataForDest[-1]
              N == info.binSize
              bridges == m_autogenDataInfoForDest[-1].data
              a == ModuleParams(m_arm.data).autoloadStart - Header.ramAddress
              l == ModuleParams(m_arm.data).autoloadListStart - Header.ramAddress
              list == << [address |-> m_newcodeAddrForDest[-1], size |-> N,
                          bssSize |-> info.bssSize] >> \o m_arm.autoloadList
          IN  /\ SubBytes(m_arm'.data, a, N - Len(bridges))
                   = SubBytes(info.binData, 0, N - Len(bridges))
              /\ SubBytes(m_arm'.data, a + N - Len(bridges), Len(bridges)) = bridges
              /\ SubBytes(m_arm'.data, a + N, l - a) = SubBytes(m_arm.data, a, l - a)
              /\ \A k \in 1..Len(list) :
                    SubBytes(m_arm'.data, l + N + 12 * (k - 1), 12)
                      = U32Bytes(list[k].address) \o U32Bytes(list[k].size)
                        \o U32Bytes(list[k].bssSize) ]_vars

\* Reached: new code smaller than the autoload block has been installed into
\* the main ARM binary, and the bytes after it are not those of the block.
C24_AutoloadBlockOverwritten ==
    /\ pc = "done"
    /\ m_newcodeDataForDest[-1].binSize > 0
    /\ m_newcodeDataForDest[-1].binSize < 8
    /\ SubBytes(m_arm.data, 28 + m_newcodeDataForDest[-1].binSize, 8)
         # SubBytes(OrigArmData, 28, 8)


\* The steps of makeTarget after fetchNewcodeAddr.
AfterFetch ==
    {"gatherInfoFromObjects", "createLinkerScript", "linkElfFile", "gatherInfoFromElf"}
    \cup AfterGather

\* C25: fetchNewcodeAddr gives destination -1 the word of the ARM binary at
\* arenaLo and the destination of each overlay region, from its
\* overlay-table entry, ramAddress + ramSize + bssSize in Append mode, the
\* region's address (the entry's ramAddress when that is 0xFFFFFFFF) in
\* Replace mode and the region's address in Create mode; no later step of
\* the run changes these addresses, and createLinkerScript writes one region
\* entry per region, with the address of its destination as ORIGIN.
C25_NewcodeAddresses ==
    [][ /\ pc = "fetchNewcodeAddr" =>
             \A i \in 1..Len(input.target.regions) :
                LET region == input.target.regions[i]
                    entry == m_ovtEntries[region.destination]
                IN  m_newcodeAddrForDest'[region.destination] =
                       IF region.destination = -1
                       THEN U32Value(SubBytes(m_arm.data, ArenaLo - Header.ramAddress, 4))
                       ELSE IF region.mode = "Append"
                       THEN entry.ramAddress + entry.ramSize + entry.bssSize
                       ELSE IF region.mode = "Replace" /\ region.address = NoRegionAddress
                       THEN entry.ramAddress
                       ELSE region.address
        /\ (pc \in AfterFetch /\ run' = run) => m_newcodeAddrForDest' = m_newcodeAddrForDest
        /\ pc = "createLinkerScript" =>
             LET regions == build'[Cpu].ldscript.regions
             IN  /\ Len(regions) = Len(input.target.regions)
                 /\ \A i \in 1..Len(input.target.regions) :
                       \E k \in 1..Len(regions) :
                          /\ regions[k].dest = input.target.regions[i].destination
                          /\ regions[k].origin = m_newcodeAddrForDest[regions[k].dest] ]_vars

\* Reached: a run on an Append region of overlay 0, whose entry has bss, has
\* finished; the new code of the overlay was linked behind that bss.
C25_AppendedBehindBss ==
    /\ pc = "done"
    /\ Len(input.target.regions) = 2
    /\ input.target.regions[2].mode = "Append"
    /\ m_newcodeAddrForDest[0] = OrigOvt[0].ramAddress + OrigOvt[0].ramSize + OrigOvt[0].bssSize
    /\ OrigOvt[0].bssSize > 0
    /\ m_newcodeAddrForDest[-1] = OrigArenaLoValue
    /\ \E k \in 1..2 : /\ build[Cpu].ldscript.regions[k].dest = 0
                       /\ build[Cpu].ldscript.regions[k].origin = m_newcodeAddrForDest[0]


\* C26: a step of the patch loop changes, in the binary of the patch's
\* destination, only bytes of the range the overlap check gives the patch
\* record: sectionSize bytes from destAddress for an Over patch, four for a
\* Jump, a Call or a Hook patch, whatever its destThumb; the size of the
\* binary stays, and so does the ARM binary when the destination is an
\* overlay.
C26_WritesWithinCheckedRange ==
    [][ (pc = "applyPatches" /\ patchIdx <= Len(m_patchInfo)) =>
          LET p == m_patchInfo[patchIdx]
              before == BinaryBefore(p.destAddressOv)
              after == BinaryAfter(p.destAddressOv)
              base == BinaryBase(p.destAddressOv)
          IN  /\ Len(after) = Len(before)
              /\ \A k \in 1..Len(before) :
                    (base + k - 1) \notin PatchRange(p) => after[k] = before[k]
              /\ p.destAddressOv # -1 => m_arm' = m_arm ]_vars

\* Reached: a Jump patch at THUMB code at 0x02000008 has been applied and
\* has changed the word at 0x0200000C, past the four bytes of its range.
C26_ThumbJumpPastItsRange ==
    /\ pc = "applyPatches"
    /\ patchIdx = 2
    /\ m_patchInfo[1].patchType = Jump
    /\ m_patchInfo[1].destThumb
    /\ m_patchInfo[1].destAddressOv = -1
    /\ m_patchInfo[1].destAddress = Header.ramAddress + 8
    /\ SubBytes(m_arm.data, 12, 4) # SubBytes(OrigArmData, 12, 4)


\* C27: at every step the cursor of each autogen record is its address plus
\* the number of bytes in its buffer; a patch that gets a bridge has its
\* branch at destAddress aimed at the cursor, where the bridge is appended
\* behind those before it; and when the new code of a destination is
\* installed, the bytes of the buffer lie in the installed block at offset
\* (address of the record - new-code address of the destination), so each
\* bridge lies where its branch is aimed.
C27_BridgesWhereBranchesAim ==
    [][ /\ \A d \in Dests :
              m_autogenDataInfoForDest'[d].present =>
                 m_autogenDataInfoForDest'[d].curAddress
                   = m_autogenDataInfoForDest'[d].address
                     + Len(m_autogenDataInfoForDest'[d].data)
        /\ \A p \in { m_patchInfo[i] : i \in 1..Len(m_patchInfo) } :
              LET info == m_autogenDataInfoForDest[p.srcAddressOv]
                  after == m_autogenDataInfoForDest'[p.srcAddressOv]
                  D == p.destAddress
                  atD == SubBytes(BinaryAfter(p.destAddressOv), D - BinaryBase(p.destAddressOv), 4)
              IN  (PatchApplied(p) /\ after # info) =>
                     /\ after.address = info.address
                     /\ SubBytes(after.data, 0, Len(info.data)) = info.data
                     /\ Len(after.data) > Len(info.data)
                     /\ BranchTarget(atD, D) = info.address + Len(info.data)
        /\ \A d \in Dests :
              (Installed(d) /\ pc' = "applyPatches" /\ m_autogenDataInfoForDest[d].present
                  /\ m_newcodeDataForDest[d].binSize > 0) =>
                 LET info == m_autogenDataInfoForDest[d]
                     N == m_newcodeDataForDest[d].binSize
                     start == IF d = -1
                              THEN ModuleParams(m_arm.data).autoloadStart - Header.ramAddress
                              ELSE IF RegionOf(d).mode = "Append"
                              THEN Len(BinaryBefore(d)) + m_ovtEntries[d].bssSize
                              ELSE 0
                     block == SubBytes(BinaryAfter(d), start, N)
                 IN  SubBytes(block, info.address - m_newcodeAddrForDest[d], Len(info.data))
                        = info.data ]_vars

\* Reached: a run has put a hook bridge and a jump bridge, 28 bytes, into
\* the new code of the main ARM binary, behind its four bytes of user code.
C27_TwoBridgesInstalled ==
    /\ pc = "done"
    /\ Len(m_autogenDataInfoForDest[-1].data) = 28
    /\ m_autogenDataInfoForDest[-1].address = m_newcodeAddrForDest[-1] + 4
    /\ m_autogenDataInfoForDest[-1].curAddress = m_autogenDataInfoForDest[-1].address + 28
    /\ SubBytes(m_arm.data, 28 + 4, 28) = m_autogenDataInfoForDest[-1].data


\* The patched-overlay list of RebuildConfig that carries the name of the
\* processor of the target of the run.
ListOfTarget == IF input.target.arm9 THEN "arm9Ovs" ELSE "arm7Ovs"

ListOfOtherCpu == IF input.target.arm9 THEN "arm7Ovs" ELSE "arm9Ovs"

\* C28: makeTarget reloads at its start exactly the overlays of the
\* patched-overlay list of its own processor, and after a successful apply
\* replaces that list with exactly the loaded overlays that are dirty and
\* leaves the list of the other processor as it was.
C28_OwnPatchedOverlayList ==
    [][ /\ (pc = "loadOverlays" /\ pc' = "fetchNewcodeAddr") =>
              { id \in OvIds : m_loadedOverlays'[id].loaded } = rc[ListOfTarget]
        /\ (pc = "applyPatches" /\ pc' = "saveOverlayBins") =>
              /\ rc'[ListOfTarget]
                   = { id \in OvIds : m_loadedOverlays[id].loaded /\ m_loadedOverlays[id].dirty }
              /\ rc'[ListOfOtherCpu] = rc[ListOfOtherCpu] ]_vars

\* Reached: an ARM9 run that patched an overlay has ended with the overlay
\* in the ARM7 list and the ARM9 list as empty as it was.
C28_Arm9RunWroteArm7List ==
    /\ pc = "done"
    /\ input.target.arm9
    /\ \E id \in OvIds : m_loadedOverlays[id].loaded /\ m_loadedOverlays[id].dirty
    /\ rc.arm7Ovs = { id \in OvIds : m_loadedOverlays[id].loaded /\ m_loadedOverlays[id].dirty }
    /\ rc.arm9Ovs = {}

=============================================================================
